---- MODULE Spec2Model ----
(***************************************************************************)
(* VaporChat: the session protocol and mesh coordination engine.          *)
(*                                                                         *)
(* One browser tab is one node.  The session controller (main.js, mesh    *)
(* revision) and the key store (crypto.js, mesh revision) are modelled     *)
(* from their source.  The join promise follows network.js; the per-peer   *)
(* connection registry of the mesh build (sendTo, broadcast,               *)
(* connectToPeer, closeEntry, openEntry) follows section 4.2 of the        *)
(* specification.                                                          *)
(*                                                                         *)
(* Every handler runs to completion or to its next await; a handler       *)
(* suspended at an await is a record in tasks, resumed by its own action.  *)
(***************************************************************************)
EXTENDS Integers, Sequences, FiniteSets, TLC

\* ── Identifiers ─────────────────────────────────────────────────
CHANNEL_PREFIX == "vaporchat-"

\* JavaScript null, as it prints when concatenated into a string.
Null == "null"

\* The channel code every tab of the model uses.
Room == "room"

\* The creator's tab; its peer id is derived from the channel id.
A == CHANNEL_PREFIX \o Room

\* Two joiner tabs; their peer ids are assigned by the rendezvous server.
B == "peer-b"

C == "peer-c"

Nodes == {A, B, C}

Joiners == {B, C}

\* ── Bounds ──────────────────────────────────────────────────────
\* Wire messages a modified client may inject during one run.
MaxForged == 1

\* Pending destroySession timeouts per tab.
MaxTimers == 2

\* Chat messages typed by users during one run.
MaxChats == 1

\* Entry toggles (/close_entry, /open_entry) during one run.
MaxToggles == 2

\* /ping commands typed during one run.
MaxPings == 2

\* Times the rendezvous server drops a registered creator's socket
\* during one run (single-peer build).
MaxDrops == 2

\* Messages the single-peer build hands to an open connection during
\* one run.
MaxSends == 2

\* ── Key material ────────────────────────────────────────────────
PGP_HEADER == "-----BEGIN PGP PUBLIC KEY BLOCK-----"

\* The armored public key generateKeypair produces in tab n.
ArmoredKey(n) == PGP_HEADER \o n

\* A block with the right header that openpgp.readKey cannot parse.
BrokenKey == PGP_HEADER \o "?"

\* A string that is not a key block at all.
NotAKey == "not-a-key"

StartsWith(s, p) == Len(s) >= Len(p) /\ SubSeq(s, 1, Len(p)) = p

\* openpgp.readKey resolves for a well-formed block and rejects otherwise.
ReadKeyOk(k) == k \in {ArmoredKey(n) : n \in Nodes}

\* generateCodename: a non-empty name of well under 100 characters.
generateCodename(n) == "cn-" \o n

LongCodename ==
  "xxxxxxxxxxxxxxxxxxxxxxxxxxxxxxxxxxxxxxxxxxxxxxxxxxxxxxxxxxxxxxxxxxxxxxxxxxxxxxxxxxxxxxxxxxxxxxxxxxxxx"

\* ── Small map helpers (JavaScript Map) ──────────────────────────
Put(f, k, v) == [x \in (DOMAIN f) \cup {k} |-> IF x = k THEN v ELSE f[x]]

Del(f, k) == [x \in (DOMAIN f) \ {k} |-> f[x]]

EmptyMap == [x \in {} |-> Null]

\* ── Wire messages ───────────────────────────────────────────────
\* An encrypted payload: its plaintext (text, and for a file the metadata
\* JSON.parse yields from it), the private keys that can decrypt it, the
\* key that signed it, and whether it is a readable armored block.
\* File metadata: whether the text parses as JSON, the length of
\* fileName, the fileSize stated, the length of the encoded data.
NoFile == [json |-> FALSE, fileName |-> 0, fileSize |-> 0, data |-> 0]

NoPayload ==
  [text |-> Null, file |-> NoFile, to |-> {}, signer |-> Null, armored |-> FALSE]

BlankMsg ==
  [type |-> Null, codename |-> Null, publicKey |-> Null, peerId |-> Null,
   peers |-> <<>>, payload |-> NoPayload, timestamp |-> 0]

Msg(t) == [BlankMsg EXCEPT !.type = t]

KeyExchangeMsg(cn, pk) ==
  [BlankMsg EXCEPT !.type = "key_exchange", !.codename = cn, !.publicKey = pk]

PeerJoinedMsg(p, cn, pk) ==
  [BlankMsg EXCEPT !.type = "peer_joined", !.peerId = p, !.codename = cn,
                   !.publicKey = pk]

PeerListMsg(list) == [BlankMsg EXCEPT !.type = "peer_list", !.peers = list]

PeerLeftMsg(p, cn) ==
  [BlankMsg EXCEPT !.type = "peer_left", !.peerId = p, !.codename = cn]

ChatMsg(pl) == [BlankMsg EXCEPT !.type = "chat", !.payload = pl]

FileMsg(pl) == [BlankMsg EXCEPT !.type = "file", !.payload = pl]

\* The transport's close event, delivered in order after the data sent
\* before the channel was closed.
ClosedEvent == Msg("#closed")

VARIABLES
  \* main.js
  state, selfCodename, peers, channelId, isCreator, entryOpen,
  sessionStartTime, pendingPings,
  \* ui.js
  screen, inputEnabled,
  \* crypto.js
  privateKey, publicKeyArmored, peerKeys,
  \* network.js
  peer, connections, dialing, chan, join,
  \* the event loop: the teardown timers pending, the handlers
  \* suspended at an await, and how many of the pending timers were set
  \* before the session now running began
  timers, tasks, stale,
  \* bookkeeping of the run
  started, forged, chats, toggles,
  \* the wall clock: what the next Date.now() returns
  now,
  \* network.js of the single-peer build, in the creator's tab, and the
  \* connection attempts made to it
  legacy,
  \* the last step: the tab that ran, the event it handled and the
  \* lines it appended to the screen
  out

mainVars == <<state, selfCodename, peers, channelId, isCreator, entryOpen,
              sessionStartTime, pendingPings>>

uiVars == <<screen, inputEnabled>>

cryptoVars == <<privateKey, publicKeyArmored, peerKeys>>

netVars == <<peer, connections, dialing, chan, join>>

loopVars == <<timers, tasks, stale>>

runVars == <<started, forged, chats, toggles, now>>

vars == <<mainVars, uiVars, cryptoVars, netVars, loopVars, runVars, legacy, out>>

Pairs == {pq \in Nodes \X Nodes : pq[1] # pq[2]}

\* ev.op is "data" for a message taken off a channel (from its sender,
\* type its data.type), "resume" for a handler continuing after an await
\* (type the handler, data the message it was handling), "command" for
\* an entry command typed by the user (type the command), "input" for
\* a line entered in the chat input (type the line as typed), "step"
\* for anything else.
NoEv == [op |-> "step", from |-> Null, type |-> Null, data |-> BlankMsg]

Typed(cmd) == [op |-> "command", from |-> Null, type |-> cmd, data |-> BlankMsg]

Entered(text) == [op |-> "input", from |-> Null, type |-> text, data |-> BlankMsg]

NoOut == [at |-> Null, ev |-> NoEv, lines |-> <<>>]

NoJoin == [settled |-> FALSE, timeout |-> FALSE, outcome |-> "none"]

\* The single-peer network.js as loaded: peer and conn are null and the
\* link is not burned.  dials holds the state of each connection
\* attempt ("idle" before it is made), wired and ready the handles
\* setupConnection has wired and announced, sent what conn.send was
\* given, reconnects the calls of peer.reconnect.  state, peerCodename
\* and peerPublicKey are those of the single-peer main.js and crypto.js,
\* imports the key_exchange messages whose handler waits for its import.
Dialers == {"j1", "j2", "j3"}

LegacyInit ==
  [peer |-> "none", conn |-> Null, linkBurned |-> FALSE,
   dials |-> [k \in Dialers |-> "idle"], wired |-> {}, ready |-> {},
   sent |-> <<>>, reconnects |-> 0, drops |-> 0,
   state |-> "landing", peerCodename |-> Null, peerPublicKey |-> Null,
   imports |-> {}]

Init ==
  /\ state = [n \in Nodes |-> "landing"]
  /\ selfCodename = [n \in Nodes |-> Null]
  /\ peers = [n \in Nodes |-> EmptyMap]
  /\ channelId = [n \in Nodes |-> Null]
  /\ isCreator = [n \in Nodes |-> FALSE]
  /\ entryOpen = [n \in Nodes |-> TRUE]
  /\ sessionStartTime = [n \in Nodes |-> FALSE]
  /\ pendingPings = [n \in Nodes |-> EmptyMap]
  /\ screen = [n \in Nodes |-> "landing"]
  /\ inputEnabled = [n \in Nodes |-> FALSE]
  /\ privateKey = [n \in Nodes |-> Null]
  /\ publicKeyArmored = [n \in Nodes |-> Null]
  /\ peerKeys = [n \in Nodes |-> EmptyMap]
  /\ peer = [n \in Nodes |-> "none"]
  /\ connections = [n \in Nodes |-> {}]
  /\ dialing = {}
  /\ chan = [pq \in Pairs |-> <<>>]
  /\ join = [n \in Nodes |-> NoJoin]
  /\ timers = [n \in Nodes |-> 0]
  /\ tasks = [n \in Nodes |-> {}]
  /\ stale = [n \in Nodes |-> 0]
  /\ started = [n \in Nodes |-> FALSE]
  /\ forged = 0
  /\ chats = 0
  /\ toggles = 0
  /\ now = 1
  /\ legacy = LegacyInit
  /\ out = NoOut

\* ── One tab's view: every per-tab variable as a record field ─────
\* sent, dial and ui collect what a handler emits during one step:
\* the messages handed to each open channel, the outbound connection
\* attempts it started, and the lines it appended to the screen.
NoSent == [q \in Nodes |-> <<>>]

Tab(n) ==
  [id |-> n,
   state |-> state[n], selfCodename |-> selfCodename[n], peers |-> peers[n],
   channelId |-> channelId[n], isCreator |-> isCreator[n],
   entryOpen |-> entryOpen[n], sessionStartTime |-> sessionStartTime[n],
   pendingPings |-> pendingPings[n],
   screen |-> screen[n], inputEnabled |-> inputEnabled[n],
   privateKey |-> privateKey[n], publicKeyArmored |-> publicKeyArmored[n],
   peerKeys |-> peerKeys[n],
   peer |-> peer[n], connections |-> connections[n], join |-> join[n],
   timers |-> timers[n], tasks |-> tasks[n], stale |-> stale[n],
   started |-> started[n],
   sent |-> NoSent, dial |-> {}, undial |-> FALSE, ui |-> <<>>, ev |-> NoEv]

\* ── ui.js ───────────────────────────────────────────────────────
Line(kind, what, who) ==
  [kind |-> kind, what |-> what, who |-> who, text |-> Null,
   unverified |-> FALSE]

appendMessage(t, kind, what, who) ==
  [t EXCEPT !.ui = Append(@, Line(kind, what, who))]

appendPeerMessage(t, text, who, unverified) ==
  [t EXCEPT !.ui = Append(@, [kind |-> "peer", what |-> "chat", who |-> who,
                              text |-> text, unverified |-> unverified])]

showScreen(t, name) == [t EXCEPT !.screen = name]

\* A variant that enters a state of its own for the error screen.
showErrorState(t, msg) ==
  [showScreen(appendMessage(t, "screen", msg, Null), "error") EXCEPT !.state = "error"]

showError(t, msg) == showScreen(appendMessage(t, "screen", msg, Null), "error")

setInputEnabled(t, enabled) == [t EXCEPT !.inputEnabled = enabled]

\* ── main.js: state machine helpers ──────────────────────────────
transition(t, newState) == showScreen([t EXCEPT !.state = newState], newState)

\* Variants of the authority check that trust more senders.
isFromAnyone(t, peerId) == TRUE

isFromKnownPeer(t, peerId) == peerId \in DOMAIN t.peers

isFromCreator(t, peerId) == peerId = CHANNEL_PREFIX \o t.channelId

\* ── crypto.js ───────────────────────────────────────────────────
generateKeypair(t) ==
  [t EXCEPT !.privateKey = t.id, !.publicKeyArmored = ArmoredKey(t.id)]

\* The part of importPeerKey after openpgp.readKey has resolved.
importPeerKey(t, peerId, armoredKey) ==
  [t EXCEPT !.peerKeys = Put(@, peerId, armoredKey)]

\* A variant that loses the whole store when the key is not there.
removePeerKeyOrAll(t, peerId) ==
  IF peerId \in DOMAIN t.peerKeys THEN [t EXCEPT !.peerKeys = Del(@, peerId)]
  ELSE [t EXCEPT !.peerKeys = EmptyMap]

removePeerKey(t, peerId) == [t EXCEPT !.peerKeys = Del(@, peerId)]

getPeerArmoredKey(t, peerId) ==
  IF peerId \in DOMAIN t.peerKeys THEN t.peerKeys[peerId] ELSE Null

hasPeerKey(t, peerId) == peerId \in DOMAIN t.peerKeys

getPublicKey(t) == t.publicKeyArmored

getFingerprint(t) == IF t.privateKey = Null THEN Null ELSE "FP-" \o t.privateKey

purgeKeys(t) ==
  [t EXCEPT !.privateKey = Null, !.publicKeyArmored = Null,
            !.peerKeys = EmptyMap]

\* ── network.js: the connection registry ─────────────────────────
sendTo(t, peerId, m) ==
  IF peerId \in t.connections
  THEN [t EXCEPT !.sent[peerId] = Append(@, m)]
  ELSE t

broadcast(t, m, excludePeerId) ==
  [t EXCEPT !.sent = [q \in Nodes |->
     IF q \in t.connections /\ q # excludePeerId THEN Append(@[q], m)
     ELSE @[q]]]

send(t, m) == broadcast(t, m, Null)

connectToPeer(t, peerId) ==
  IF peerId \in t.connections \/ peerId = t.id \/ t.peer # "open"
  THEN t
  ELSE [t EXCEPT !.dial = @ \cup {<<peerId, "mesh">>}]

closeEntry(t) == IF t.peer = "open" THEN [t EXCEPT !.peer = "disconnected"] ELSE t

openEntry(t) == IF t.peer = "disconnected" THEN [t EXCEPT !.peer = "open"] ELSE t

destroy(t) ==
  [t EXCEPT !.sent = [q \in Nodes |->
                       IF q \in t.connections THEN Append(@[q], ClosedEvent)
                       ELSE @[q]],
            !.connections = {}, !.peer = "none", !.undial = TRUE, !.dial = {}]

\* ── main.js: session cleanup ────────────────────────────────────
destroySession(t) ==
  IF t.state = "destroyed" THEN t
  ELSE LET t1 == setInputEnabled(purgeKeys(destroy(t)), FALSE)
           t2 == [t1 EXCEPT !.selfCodename = Null, !.peers = EmptyMap,
                            !.channelId = Null, !.sessionStartTime = FALSE,
                            !.pendingPings = EmptyMap, !.entryOpen = TRUE]
       IN transition(t2, "destroyed")

\* setTimeout(() => destroySession(), delay)
scheduleDestroy(t) == [t EXCEPT !.timers = @ + 1]

\* ── Suspended handlers ──────────────────────────────────────────
\* h names the handler, from the sender of the message it is handling,
\* data the message, isNewPeer and idx the handler's locals.
Task(h, from, data, isNewPeer, idx) ==
  [h |-> h, from |-> from, data |-> data, isNewPeer |-> isNewPeer, idx |-> idx]

suspend(t, task) == [t EXCEPT !.tasks = @ \cup {task}]

resume(t, task) == [t EXCEPT !.tasks = @ \ {task}]

\* ── main.js: inbound handlers ───────────────────────────────────
\* A variant that treats the open channel itself as the handshake.
onConnectionReadyEager(t, peerId) ==
  transition(sendTo(t, peerId, KeyExchangeMsg(t.selfCodename, getPublicKey(t))),
             "chat")

onConnectionReady(t, peerId) ==
  sendTo(t, peerId, KeyExchangeMsg(t.selfCodename, getPublicKey(t)))

ValidCodename(cn) == cn # Null /\ Len(cn) > 0 /\ Len(cn) <= 100

ValidKeyBlock(pk) == pk # Null /\ StartsWith(pk, PGP_HEADER)

\* A variant without the test for an already connected sender.
handleKeyExchangeEvery(t, data, peerId) ==
  IF ~ValidCodename(data.codename)
  THEN appendMessage(t, "error", "Key exchange failed: Invalid codename received", peerId)
  ELSE IF ~ValidKeyBlock(data.publicKey)
  THEN appendMessage(t, "error", "Key exchange failed: Invalid public key format", peerId)
  ELSE LET isNewPeer == peerId \notin DOMAIN t.peers
           t1 == [t EXCEPT !.peers =
                    Put(@, peerId, [codename |-> data.codename, connected |-> TRUE])]
       IN suspend(t1, Task("key_exchange", peerId, data, isNewPeer, 0))

\* handleKeyExchange up to the await on crypto.importPeerKey.
handleKeyExchange(t, data, peerId) ==
  IF ~ValidCodename(data.codename)
  THEN appendMessage(t, "error", "Key exchange failed: Invalid codename received", peerId)
  ELSE IF ~ValidKeyBlock(data.publicKey)
  THEN appendMessage(t, "error", "Key exchange failed: Invalid public key format", peerId)
  ELSE IF peerId \in DOMAIN t.peers /\ t.peers[peerId].connected
  THEN t
  ELSE LET isNewPeer == peerId \notin DOMAIN t.peers
           t1 == [t EXCEPT !.peers =
                    Put(@, peerId, [codename |-> data.codename, connected |-> TRUE])]
       IN suspend(t1, Task("key_exchange", peerId, data, isNewPeer, 0))

RECURSIVE SetToSeq(_)
SetToSeq(S) ==
  IF S = {} THEN <<>>
  ELSE LET x == CHOOSE y \in S : TRUE IN <<x>> \o SetToSeq(S \ {x})

\* The peer_list the creator builds for newcomer peerId.
peerListFor(t, peerId) ==
  LET others == {pid \in DOMAIN t.peers : pid # peerId /\ t.peers[pid].connected}
      entry(pid) == [peerId |-> pid, codename |-> t.peers[pid].codename,
                     publicKey |-> getPeerArmoredKey(t, pid)]
      order == SetToSeq(others)
  IN [i \in 1..Len(order) |-> entry(order[i])]

\* handleKeyExchange after the await: the import has resolved or thrown.
handleKeyExchangeResume(t0, task) ==
  LET t == resume(t0, task)
      data == task.data
      peerId == task.from
  IN IF ~ReadKeyOk(data.publicKey)
     THEN appendMessage(t, "error", "Key exchange failed: import", peerId)
     ELSE
       LET t1 == importPeerKey(t, peerId, data.publicKey)
           peerList == peerListFor(t1, peerId)
           t2 == IF t1.isCreator /\ task.isNewPeer
                 THEN broadcast(
                        IF Len(peerList) > 0
                        THEN sendTo(t1, peerId, PeerListMsg(peerList))
                        ELSE t1,
                        PeerJoinedMsg(peerId, data.codename, data.publicKey),
                        peerId)
                 ELSE t1
           t3 == IF t2.state # "chat"
                 THEN setInputEnabled(
                        appendMessage(
                          transition([t2 EXCEPT !.sessionStartTime = TRUE], "chat"),
                          "crypto", "Key exchange complete. E2E encryption active.", Null),
                        TRUE)
                 ELSE t2
       IN IF task.isNewPeer
          THEN appendMessage(t3, "system", "has joined the channel.", data.codename)
          ELSE t3

\* handlePeerList from entry i on, up to the next await or the end.
RECURSIVE handlePeerListFrom(_, _, _)
handlePeerListFrom(t, data, i) ==
  IF i > Len(data.peers) THEN t
  ELSE LET p == data.peers[i]
           t1 == IF p.peerId \notin DOMAIN t.peers
                 THEN [t EXCEPT !.peers =
                         Put(@, p.peerId, [codename |-> p.codename, connected |-> FALSE])]
                 ELSE t
       IN IF ~hasPeerKey(t1, p.peerId)
          THEN suspend(t1, Task("peer_list", Null, data, FALSE, i))
          ELSE handlePeerListFrom(connectToPeer(t1, p.peerId), data, i + 1)

handlePeerList(t, data) == handlePeerListFrom(t, data, 1)

\* handlePeerList after the await inside the loop; a rejected import
\* leaves the loop (the rejection is not caught).
handlePeerListResume(t0, task) ==
  LET t == resume(t0, task)
      p == task.data.peers[task.idx]
  IN IF ~ReadKeyOk(p.publicKey) THEN t
     ELSE handlePeerListFrom(
            connectToPeer(importPeerKey(t, p.peerId, p.publicKey), p.peerId),
            task.data, task.idx + 1)

\* A variant that writes the announced record over an existing one.
handlePeerJoinedOverwrite(t, data) ==
  LET t1 == [t EXCEPT !.peers =
               Put(@, data.peerId, [codename |-> data.codename, connected |-> FALSE])]
  IN IF ~hasPeerKey(t1, data.peerId)
     THEN suspend(t1, Task("peer_joined", Null, data, FALSE, 0))
     ELSE t1

handlePeerJoined(t, data) ==
  LET t1 == IF data.peerId \notin DOMAIN t.peers
            THEN [t EXCEPT !.peers =
                    Put(@, data.peerId, [codename |-> data.codename, connected |-> FALSE])]
            ELSE t
  IN IF ~hasPeerKey(t1, data.peerId)
     THEN suspend(t1, Task("peer_joined", Null, data, FALSE, 0))
     ELSE t1

handlePeerJoinedResume(t0, task) ==
  LET t == resume(t0, task)
  IN IF ~ReadKeyOk(task.data.publicKey) THEN t
     ELSE importPeerKey(t, task.data.peerId, task.data.publicKey)

peerName(t, peerId, fallback) ==
  IF peerId \in DOMAIN t.peers THEN t.peers[peerId].codename ELSE fallback

handlePeerLeft(t, data) ==
  LET name == peerName(t, data.peerId, data.codename)
      t1 == removePeerKey([t EXCEPT !.peers = Del(@, data.peerId)], data.peerId)
  IN appendMessage(t1, "system", "has left the channel.", name)

handleEntryClosed(t) ==
  appendMessage(closeEntry([t EXCEPT !.entryOpen = FALSE]),
                "system", "Entry has been closed. No new peers can join.", Null)

handleEntryOpened(t) ==
  appendMessage(openEntry([t EXCEPT !.entryOpen = TRUE]),
                "system", "Entry has been reopened. New peers can join.", Null)

\* The tail shared by handlePeerLeave and onPeerDisconnect.
afterPeerGone(t) ==
  IF t.peers = EmptyMap /\ ~t.isCreator
  THEN scheduleDestroy(setInputEnabled(t, FALSE))
  ELSE t

\* A variant that removes the peer the message names.
handlePeerLeaveNamed(t, data, peerId) ==
  IF t.state # "chat" THEN t
  ELSE LET gone == IF data.peerId # Null THEN data.peerId ELSE peerId
           name == peerName(t, gone, IF data.codename # Null THEN data.codename ELSE "Peer")
           t1 == removePeerKey([t EXCEPT !.peers = Del(@, gone)], gone)
           t2 == appendMessage(t1, "system", "left the channel.", name)
           t3 == IF t2.isCreator
                 THEN broadcast(t2, PeerLeftMsg(gone, name), Null)
                 ELSE t2
       IN afterPeerGone(t3)

handlePeerLeave(t, data, peerId) ==
  IF t.state # "chat" THEN t
  ELSE LET name == peerName(t, peerId, IF data.codename # Null THEN data.codename ELSE "Peer")
           t1 == removePeerKey([t EXCEPT !.peers = Del(@, peerId)], peerId)
           t2 == appendMessage(t1, "system", "left the channel.", name)
           t3 == IF t2.isCreator
                 THEN broadcast(t2, PeerLeftMsg(peerId, name), Null)
                 ELSE t2
       IN afterPeerGone(t3)

handleRemoteClose(t, peerId) ==
  scheduleDestroy(
    setInputEnabled(
      appendMessage(t, "system", "closed the channel.", peerName(t, peerId, "Peer")),
      FALSE))

onPeerDisconnect(t, peerId) ==
  IF t.state # "chat" THEN t
  ELSE LET name == peerName(t, peerId, "Peer")
           t1 == removePeerKey([t EXCEPT !.peers = Del(@, peerId)], peerId)
           t2 == appendMessage(t1, "system", "disconnected.", name)
           t3 == IF t2.isCreator
                 THEN broadcast(t2, PeerLeftMsg(peerId, name), Null)
                 ELSE t2
       IN afterPeerGone(t3)

onNetworkError(t, err) ==
  IF t.state = "chat"
  THEN appendMessage(t, "error", "Connection error", err)
  ELSE t

\* handleChatMessage up to the await on crypto.decryptMessage.
handleChatMessage(t, data, peerId) ==
  suspend(t, Task("chat", peerId, data, FALSE, 0))

\* The single-peer revision's decryptMessage, which throws when the
\* signature does not verify.
decryptMessageStrict(t, payload, senderPeerId) ==
  IF /\ payload.armored /\ t.privateKey # Null /\ t.privateKey \in payload.to
     /\ payload.signer # Null
     /\ hasPeerKey(t, senderPeerId)
     /\ t.peerKeys[senderPeerId] = ArmoredKey(payload.signer)
  THEN [failed |-> FALSE, text |-> payload.text, file |-> payload.file,
        verified |-> TRUE]
  ELSE [failed |-> TRUE, text |-> Null, file |-> NoFile, verified |-> FALSE]

\* crypto.decryptMessage: "failed" when the message cannot be read or
\* decrypted, else the plaintext and whether the first signature verifies
\* under the sender's imported key.
decryptMessage(t, payload, senderPeerId) ==
  IF ~payload.armored \/ t.privateKey = Null \/ t.privateKey \notin payload.to
  THEN [failed |-> TRUE, text |-> Null, file |-> NoFile, verified |-> FALSE]
  ELSE [failed |-> FALSE, text |-> payload.text, file |-> payload.file,
        verified |-> /\ payload.signer # Null
                     /\ hasPeerKey(t, senderPeerId)
                     /\ t.peerKeys[senderPeerId] = ArmoredKey(payload.signer)]

\* A variant that forgets a sender whose message does not decrypt.
handleChatMessageResumeForget(t0, task) ==
  LET t == resume(t0, task)
      senderPeerId == task.from
      r == decryptMessage(t, task.data.payload, senderPeerId)
      senderName == peerName(t, senderPeerId, "Unknown")
  IN IF r.failed
     THEN appendMessage(
            removePeerKey([t EXCEPT !.peers = Del(@, senderPeerId)], senderPeerId),
            "error", "Failed to decrypt message", senderPeerId)
     ELSE LET t1 == appendPeerMessage(t, r.text, senderName, ~r.verified)
          IN IF ~r.verified
             THEN appendMessage(t1, "error", "WARNING: Signature verification failed for the above message.", Null)
             ELSE t1

handleChatMessageResume(t0, task) ==
  LET t == resume(t0, task)
      senderPeerId == task.from
      r == decryptMessage(t, task.data.payload, senderPeerId)
      senderName == peerName(t, senderPeerId, "Unknown")
  IN IF r.failed
     THEN appendMessage(t, "error", "Failed to decrypt message", senderPeerId)
     ELSE LET t1 == appendPeerMessage(t, r.text, senderName, ~r.verified)
          IN IF ~r.verified
             THEN appendMessage(t1, "error", "WARNING: Signature verification failed for the above message.", Null)
             ELSE t1

MAX_FILE_SIZE == 2 * 1024 * 1024

appendFileMessage(t, metadata, who, unverified) ==
  [t EXCEPT !.ui = Append(@, [kind |-> "peer", what |-> "file", who |-> who,
                              text |-> Null, unverified |-> unverified])]

\* handleFileMessage up to the await on crypto.decryptMessage.
handleFileMessage(t, data, peerId) ==
  suspend(t, Task("file", peerId, data, FALSE, 0))

\* data.length > MAX_FILE_SIZE * 1.37, on whole lengths.
handleFileMessageResume(t0, task) ==
  LET t == resume(t0, task)
      senderPeerId == task.from
      r == decryptMessage(t, task.data.payload, senderPeerId)
      metadata == r.file
      senderName == peerName(t, senderPeerId, "Unknown")
  IN IF r.failed \/ ~metadata.json
     THEN appendMessage(t, "error", "Failed to decrypt file", senderPeerId)
     ELSE IF metadata.data = 0
     THEN appendMessage(t, "error", "Rejected file: missing or invalid file data.", Null)
     ELSE IF metadata.data * 100 > MAX_FILE_SIZE * 137
     THEN appendMessage(t, "error", "Rejected file: exceeds maximum allowed size (2 MB).", Null)
     ELSE IF metadata.fileName = 0 \/ metadata.fileName > 255
     THEN appendMessage(t, "error", "Rejected file: invalid file name.", Null)
     ELSE LET t1 == appendFileMessage(t, metadata, senderName, ~r.verified)
          IN IF ~r.verified
             THEN appendMessage(t1, "error", "WARNING: Signature verification failed for the above file.", Null)
             ELSE t1

PingMsg(ts) == [BlankMsg EXCEPT !.type = "ping", !.timestamp = ts]

PongMsg(ts) == [BlankMsg EXCEPT !.type = "pong", !.timestamp = ts]

\* A variant that reports every pong from a peer with a pending ping.
handlePongAnyTimestamp(t, data, peerId) ==
  IF peerId \in DOMAIN t.pendingPings
  THEN [appendMessage(t, "system", "Pong from", peerName(t, peerId, peerId))
          EXCEPT !.pendingPings = Del(@, peerId)]
  ELSE t

\* A timestamp of 0 is falsy and never set by cmdPing.
handlePong(t, data, peerId) ==
  IF /\ peerId \in DOMAIN t.pendingPings
     /\ t.pendingPings[peerId] # 0
     /\ data.timestamp = t.pendingPings[peerId]
  THEN [appendMessage(t, "system", "Pong from", peerName(t, peerId, peerId))
          EXCEPT !.pendingPings = Del(@, peerId)]
  ELSE t

\* ui.clearMessages empties the message log.
clearMessages(t) == [t EXCEPT !.ui = <<>>]

\* onData: dispatch on data.type.
onData(t, data, peerId) ==
  CASE data.type = "key_exchange" -> handleKeyExchange(t, data, peerId)
    [] data.type = "chat" -> handleChatMessage(t, data, peerId)
    [] data.type = "file" -> handleFileMessage(t, data, peerId)
    [] data.type = "close" ->
         IF ~isFromCreator(t, peerId) THEN t ELSE handleRemoteClose(t, peerId)
    [] data.type = "clear" ->
         appendMessage(clearMessages(t), "system", "Chat log cleared by peer.", Null)
    [] data.type = "ping" -> sendTo(t, peerId, PongMsg(data.timestamp))
    [] data.type = "pong" -> handlePong(t, data, peerId)
    [] data.type = "peer_list" ->
         IF ~isFromCreator(t, peerId) THEN t ELSE handlePeerList(t, data)
    [] data.type = "peer_joined" ->
         IF ~isFromCreator(t, peerId) THEN t ELSE handlePeerJoined(t, data)
    [] data.type = "peer_left" ->
         IF ~isFromCreator(t, peerId) THEN t ELSE handlePeerLeft(t, data)
    [] data.type = "entry_closed" ->
         IF ~isFromCreator(t, peerId) THEN t ELSE handleEntryClosed(t)
    [] data.type = "entry_opened" ->
         IF ~isFromCreator(t, peerId) THEN t ELSE handleEntryOpened(t)
    [] data.type = "leave" -> handlePeerLeave(t, data, peerId)
    [] OTHER -> t

\* ── Committing a step ───────────────────────────────────────────
\* upd maps the tabs that ran in this step to their new records; ch is
\* the channel map once the handled message has been taken off.  Data
\* handed to a channel reaches the far end's queue only while the far
\* end still holds its handle; a tab that dropped a handle receives
\* nothing more on it.
Commit(upd, ch, dl) ==
  LET S == DOMAIN upd
      conn(q) == IF q \in S THEN upd[q].connections ELSE connections[q]
      sentBy(p, q) == IF p \in S THEN upd[p].sent[q] ELSE <<>>
  IN
  /\ \A n \in S : upd[n].timers <= MaxTimers
  /\ state' = [n \in Nodes |-> IF n \in S THEN upd[n].state ELSE state[n]]
  /\ selfCodename' = [n \in Nodes |-> IF n \in S THEN upd[n].selfCodename ELSE selfCodename[n]]
  /\ peers' = [n \in Nodes |-> IF n \in S THEN upd[n].peers ELSE peers[n]]
  /\ channelId' = [n \in Nodes |-> IF n \in S THEN upd[n].channelId ELSE channelId[n]]
  /\ isCreator' = [n \in Nodes |-> IF n \in S THEN upd[n].isCreator ELSE isCreator[n]]
  /\ entryOpen' = [n \in Nodes |-> IF n \in S THEN upd[n].entryOpen ELSE entryOpen[n]]
  /\ sessionStartTime' = [n \in Nodes |-> IF n \in S THEN upd[n].sessionStartTime ELSE sessionStartTime[n]]
  /\ pendingPings' = [n \in Nodes |-> IF n \in S THEN upd[n].pendingPings ELSE pendingPings[n]]
  /\ screen' = [n \in Nodes |-> IF n \in S THEN upd[n].screen ELSE screen[n]]
  /\ inputEnabled' = [n \in Nodes |-> IF n \in S THEN upd[n].inputEnabled ELSE inputEnabled[n]]
  /\ privateKey' = [n \in Nodes |-> IF n \in S THEN upd[n].privateKey ELSE privateKey[n]]
  /\ publicKeyArmored' = [n \in Nodes |-> IF n \in S THEN upd[n].publicKeyArmored ELSE publicKeyArmored[n]]
  /\ peerKeys' = [n \in Nodes |-> IF n \in S THEN upd[n].peerKeys ELSE peerKeys[n]]
  /\ peer' = [n \in Nodes |-> IF n \in S THEN upd[n].peer ELSE peer[n]]
  /\ connections' = [n \in Nodes |-> conn(n)]
  /\ join' = [n \in Nodes |-> IF n \in S THEN upd[n].join ELSE join[n]]
  /\ timers' = [n \in Nodes |-> IF n \in S THEN upd[n].timers ELSE timers[n]]
  /\ tasks' = [n \in Nodes |-> IF n \in S THEN upd[n].tasks ELSE tasks[n]]
  /\ stale' = [n \in Nodes |-> IF n \in S THEN upd[n].stale ELSE stale[n]]
  /\ started' = [n \in Nodes |-> IF n \in S THEN upd[n].started ELSE started[n]]
  /\ dialing' =
       {d \in dl : ~(d[1] \in S /\ upd[d[1]].undial)}
       \cup UNION {{<<n, d[1], d[2]>> : d \in upd[n].dial} : n \in S}
  /\ chan' = [pq \in Pairs |->
               IF pq[1] \in conn(pq[2])
               THEN ch[pq] \o sentBy(pq[1], pq[2])
               ELSE <<>>]
  /\ out' = IF Cardinality(S) = 1
            THEN LET t == upd[CHOOSE n \in S : TRUE]
                 IN [at |-> t.id, ev |-> t.ev, lines |-> t.ui]
            ELSE NoOut

One(n, t) == [x \in {n} |-> t]

Step(upd, ch, dl) ==
  /\ Commit(upd, ch, dl)
  /\ UNCHANGED <<forged, chats, toggles, now, legacy>>

\* ── Creator flow ────────────────────────────────────────────────
\* createChannel up to the await on crypto.generateKeypair.
CreateChannel(n) ==
  /\ n = A
  /\ screen[n] = "landing"
  /\ ~started[n]
  /\ LET t == [Tab(n) EXCEPT !.channelId = Room,
                             !.selfCodename = generateCodename(n),
                             !.started = TRUE]
     IN Step(One(n, suspend(t, Task("createChannel", Null, BlankMsg, FALSE, 1))),
             chan, dialing)

\* createChannel from the keypair to the await on network.createChannel,
\* which constructs the Peer under the derived id.
CreateKeysReady(n) ==
  \E task \in tasks[n] :
    /\ task.h = "createChannel" /\ task.idx = 1
    /\ LET t == [generateKeypair(resume(Tab(n), task))
                   EXCEPT !.isCreator = TRUE, !.peer = "opening"]
       IN Step(One(n, suspend(t, Task("createChannel", Null, BlankMsg, FALSE, 2))),
               chan, dialing)

\* ── Joiner flow ─────────────────────────────────────────────────
\* joinChannel up to the await on crypto.generateKeypair.
JoinChannel(n) ==
  /\ n \in Joiners
  /\ screen[n] = "landing"
  /\ ~started[n]
  /\ LET t == [Tab(n) EXCEPT !.channelId = Room,
                             !.selfCodename = generateCodename(n),
                             !.isCreator = FALSE,
                             !.started = TRUE]
     IN Step(One(n, suspend(t, Task("joinChannel", Null, BlankMsg, FALSE, 1))),
             chan, dialing)

\* The hashchange listener (or the join button, which is on the landing
\* screen) starts joinChannel while the state is landing, here on a tab
\* whose createChannel is still suspended: joinChannel up to the await
\* on crypto.generateKeypair.
HashChangeJoin(n) ==
  /\ state[n] = "landing"
  /\ screen[n] # "closed"
  /\ \E k \in tasks[n] : k.h = "createChannel"
  /\ LET t == [Tab(n) EXCEPT !.channelId = Room,
                             !.selfCodename = generateCodename(n),
                             !.isCreator = FALSE]
     IN Step(One(n, suspend(t, Task("joinChannel", Null, BlankMsg, FALSE, 1))),
             chan, dialing)

\* A later session of the tab: back on the landing screen, with no
\* create or join in progress and no channel held, the user follows a
\* join link again.
\* joinChannel up to the await on crypto.generateKeypair; the timers
\* pending at this moment belong to what came before.
JoinAnew(n) ==
  /\ n \in Joiners
  /\ started[n]
  /\ state[n] = "landing" /\ screen[n] = "landing"
  /\ \A k \in tasks[n] : k.h \notin {"joinChannel", "createChannel"}
  /\ join[n].outcome # "pending"
  /\ connections[n] = {}
  /\ LET t == [Tab(n) EXCEPT !.channelId = Room,
                             !.selfCodename = generateCodename(n),
                             !.isCreator = FALSE,
                             !.stale = timers[n]]
     IN Step(One(n, suspend(t, Task("joinChannel", Null, BlankMsg, FALSE, 1))),
             chan, dialing)

\* joinChannel from the keypair to the await on network.joinChannel,
\* which constructs the Peer and arms the join timeout.
JoinKeysReady(n) ==
  \E task \in tasks[n] :
    /\ task.h = "joinChannel" /\ task.idx = 1
    /\ LET t == [generateKeypair(resume(Tab(n), task))
                   EXCEPT !.peer = "opening",
                          !.join = [settled |-> FALSE, timeout |-> TRUE,
                                    outcome |-> "pending"]]
       IN Step(One(n, t), chan, dialing)

\* The rejection of network.joinChannel and the catch block of main's
\* joinChannel that follows it.
\* A variant without the settled flag.
joinRejectAgain(t, type) ==
  showError(
    onNetworkError([t EXCEPT !.join = [settled |-> TRUE, timeout |-> FALSE,
                                       outcome |-> type]], type),
    type)

joinReject(t, type) ==
  IF t.join.settled THEN t
  ELSE showError(
         onNetworkError([t EXCEPT !.join = [settled |-> TRUE, timeout |-> FALSE,
                                            outcome |-> type]], type),
         type)

\* peer.on("open"): the rendezvous server acknowledged the registration.
\* The creator's createChannel resolves and main shows the waiting
\* screen; the joiner dials the creator's derived id, whether or not
\* the join timeout has fired meanwhile.
PeerOpen(n) ==
  /\ peer[n] = "opening"
  /\ LET t == [Tab(n) EXCEPT !.peer = "open"]
         creating == {k \in t.tasks : k.h = "createChannel" /\ k.idx = 2}
         t1 == IF creating # {}
               THEN transition(resume(t, CHOOSE k \in creating : TRUE), "waiting")
               ELSE IF t.join.outcome # "none"
               THEN [t EXCEPT !.dial = {<<CHANNEL_PREFIX \o Room, "join">>}]
               ELSE t
     IN Step(One(n, t1), chan, dialing)

\* peer.on("error") while registering: createChannel rejects and main
\* shows the landing error; joinChannel rejects with the network error.
PeerError(n) ==
  /\ peer[n] = "opening"
  /\ LET t == [Tab(n) EXCEPT !.peer = "disconnected"]
         creating == {k \in t.tasks : k.h = "createChannel" /\ k.idx = 2}
         t1 == IF creating # {}
               THEN appendMessage(
                      onNetworkError(resume(t, CHOOSE k \in creating : TRUE), "network"),
                      "landing-error", "Failed to create channel", Null)
               ELSE joinReject(t, "network")
     IN Step(One(n, t1), chan, dialing)

\* The join timeout fires after JOIN_TIMEOUT_MS.
JoinTimeout(n) ==
  /\ join[n].timeout
  /\ LET t == [Tab(n) EXCEPT !.join.timeout = FALSE]
     IN Step(One(n, joinReject(t, "request-timeout")), chan, dialing)

\* ── Connection attempts ─────────────────────────────────────────
\* A variant whose joiner wires the channel whether or not its attempt
\* has settled.
ConnOpenUnguarded(d) ==
  LET p == d[1]
      q == d[2]
      tq == onConnectionReady([Tab(q) EXCEPT !.connections = @ \cup {p}], p)
      wired == onConnectionReady([Tab(p) EXCEPT !.connections = @ \cup {q}], q)
      tp == IF d[3] = "join"
            THEN [wired EXCEPT !.join = [settled |-> TRUE, timeout |-> FALSE,
                                         outcome |-> "resolved"]]
            ELSE wired
  IN /\ d \in dialing
     /\ p # q
     /\ peer[q] = "open"
     /\ peer[p] # "none"
     /\ p \notin connections[q]
     /\ Step([x \in {p, q} |-> IF x = p THEN tp ELSE tq], chan, dialing \ {d})

\* The rendezvous hands the joiner's attempt d to the creator, which is
\* registered: peer.on("connection") takes it, and its channel opens
\* later, whatever the creator's registration is by then.
ConnAccept(d) ==
  /\ d \in dialing
  /\ d[3] = "join"
  /\ peer[d[2]] = "open"
  /\ d[1] \notin connections[d[2]]
  /\ Step(One(d[2], Tab(d[2])), chan,
          (dialing \ {d}) \cup {<<d[1], d[2], "accepted">>})

\* An outbound attempt d = <<p, q, kind>> reaches q, which is registered
\* and accepting (or has taken the attempt already): the channel opens
\* at both ends.  Each end wires the
\* handle and announces itself (setupConnection, onConnectionReady); a
\* joiner whose attempt has already settled leaves the handle unwired.
ConnOpen(d) ==
  LET p == d[1]
      q == d[2]
      tq == onConnectionReady([Tab(q) EXCEPT !.connections = @ \cup {p}], p)
      tp0 == Tab(p)
      wired == onConnectionReady([tp0 EXCEPT !.connections = @ \cup {q}], q)
      tp == IF d[3] \in {"join", "accepted"}
            THEN IF tp0.join.settled THEN tp0
                 ELSE [wired EXCEPT !.join = [settled |-> TRUE, timeout |-> FALSE,
                                              outcome |-> "resolved"]]
            ELSE wired
  IN /\ d \in dialing
     /\ p # q
     /\ (peer[q] = "open" \/ d[3] = "accepted")
     /\ peer[p] # "none"
     /\ p \notin connections[q]
     /\ Step([x \in {p, q} |-> IF x = p THEN tp ELSE tq], chan, dialing \ {d})

\* The attempt finds no registered peer under q's id: peer-unavailable.
DialUnavailable(d) ==
  /\ d \in dialing
  /\ d[3] # "accepted"
  /\ peer[d[2]] # "open"
  /\ Step(One(d[1], joinReject(Tab(d[1]), "peer-unavailable")), chan,
          dialing \ {d})

\* ── Inbound events ──────────────────────────────────────────────
\* The head of the queue from p reaches q: a data event, or the close
\* event of the channel.
Deliver(p, q) ==
  /\ <<p, q>> \in Pairs
  /\ chan[<<p, q>>] # <<>>
  /\ p \in connections[q]
  /\ LET m == Head(chan[<<p, q>>])
         ch == [chan EXCEPT ![<<p, q>>] = Tail(@)]
         t == [Tab(q) EXCEPT !.ev = [op |-> "data", from |-> p, type |-> m.type,
                                        data |-> m]]
     IN IF m = ClosedEvent
        THEN Step(One(q, onPeerDisconnect([t EXCEPT !.connections = @ \ {p}], p)),
                  ch, dialing)
        ELSE Step(One(q, onData(t, m, p)), ch, dialing)

\* ── main.js: chat actions ───────────────────────────────────────
KeyOwner(k) == CHOOSE n \in Nodes : ArmoredKey(n) = k

\* crypto.encryptMessage: addressed to every key in the store, signed
\* with the session key; openpgp rejects an empty recipient list.
encryptMessage(t, text) ==
  IF t.peerKeys = EmptyMap
  THEN [failed |-> TRUE, payload |-> NoPayload]
  ELSE [failed |-> FALSE,
        payload |-> [text |-> text,
                     file |-> NoFile,
                     to |-> {KeyOwner(t.peerKeys[p]) : p \in DOMAIN t.peerKeys},
                     signer |-> t.privateKey,
                     armored |-> TRUE]]

\* sendMessage up to the await on crypto.encryptMessage (text is a
\* plain line, not a command).
sendMessage(t, text) ==
  suspend(t, Task("sendMessage", Null, ChatMsg([NoPayload EXCEPT !.text = text]), FALSE, 0))

sendMessageResume(t0, task) ==
  LET t == resume(t0, task)
      text == task.data.payload.text
      r == encryptMessage(t, text)
  IN IF r.failed
     THEN appendMessage(t, "error", "Failed to encrypt message", Null)
     ELSE [send(t, ChatMsg(r.payload))
             EXCEPT !.ui = Append(@, [kind |-> "self", what |-> "chat",
                                      who |-> t.selfCodename, text |-> text,
                                      unverified |-> FALSE])]

\* ── main.js: file transfer ──────────────────────────────────────
\* The length of the base64 encoding of size bytes.
\* A variant for an encoding of two characters per byte.
HexLength(size) == 2 * size

Base64Length(size) == 4 * ((size + 2) \div 3)

\* The metadata sendFile builds for a file with a name of nameLength
\* characters and size bytes.
FileMetadata(nameLength, size) ==
  [json |-> TRUE, fileName |-> nameLength, fileSize |-> size,
   data |-> Base64Length(size)]

\* A variant without the size test before encoding.
\* Each call of sendFile is an invocation of its own, also when the
\* same file is attached twice: the least number no suspended sendFile
\* of the tab carries.
sendFileCall(t) ==
  LET used == {k.idx : k \in {x \in t.tasks : x.h = "sendFile"}}
  IN CHOOSE i \in 0..Cardinality(used) :
       i \notin used /\ \A j \in 0..(i - 1) : j \in used

sendFileAnySize(t, file) ==
  suspend(t, Task("sendFile", Null, FileMsg([NoPayload EXCEPT !.file = file]), FALSE,
                  sendFileCall(t)))

\* sendFile up to its awaits (reading the file, encrypting the
\* metadata); file is the metadata the File object gives.
sendFile(t, file) ==
  IF file.fileSize > MAX_FILE_SIZE
  THEN appendMessage(t, "error", "File too large. Maximum is 2 MB.", Null)
  ELSE suspend(t, Task("sendFile", Null, FileMsg([NoPayload EXCEPT !.file = file]), FALSE,
                       sendFileCall(t)))

sendFileResume(t0, task) ==
  LET t == resume(t0, task)
      metadata == task.data.payload.file
      r == encryptMessage(t, "{}")
  IN IF r.failed
     THEN appendMessage(t, "error", "Failed to send file", Null)
     ELSE [send(t, FileMsg([r.payload EXCEPT !.file = metadata]))
             EXCEPT !.ui = Append(@, [kind |-> "self", what |-> "file",
                                      who |-> t.selfCodename, text |-> Null,
                                      unverified |-> FALSE])]

\* A suspended handler resumes after its await.
Resume(n) ==
  \E task \in tasks[n] :
    /\ task.h \in {"key_exchange", "peer_list", "peer_joined", "chat", "file",
                 "sendMessage", "sendFile"}
    /\ LET t == [Tab(n) EXCEPT !.ev = [op |-> "resume", from |-> task.from,
                                        type |-> task.h, data |-> task.data]]
           t1 == CASE task.h = "key_exchange" -> handleKeyExchangeResume(t, task)
                   [] task.h = "peer_list" -> handlePeerListResume(t, task)
                   [] task.h = "peer_joined" -> handlePeerJoinedResume(t, task)
                   [] task.h = "chat" -> handleChatMessageResume(t, task)
                   [] task.h = "file" -> handleFileMessageResume(t, task)
                   [] task.h = "sendMessage" -> sendMessageResume(t, task)
                   [] task.h = "sendFile" -> sendFileResume(t, task)
       IN Step(One(n, t1), chan, dialing)

\* A destroySession timeout fires: one set in the session now running,
\* or one left over from an earlier session of the tab.
TimerFire(n) ==
  /\ timers[n] > 0
  /\ \E old \in BOOLEAN :
       /\ IF old THEN stale[n] > 0 ELSE timers[n] > stale[n]
       /\ Step(One(n, destroySession([Tab(n) EXCEPT !.timers = @ - 1,
                                                    !.stale = IF old THEN @ - 1 ELSE @])),
               chan, dialing)

\* ── User actions ────────────────────────────────────────────────
\* The chat input exists on the chat screen and takes text only while
\* it is enabled.
CanType(n) == screen[n] = "chat" /\ inputEnabled[n]

cmdClose(t) ==
  scheduleDestroy(
    setInputEnabled(
      appendMessage(broadcast(t, Msg("close"), Null),
                    "system", "You closed the channel.", Null),
      FALSE))

CmdClose(n) ==
  /\ CanType(n)
  /\ Step(One(n, cmdClose(Tab(n))), chan, dialing)

\* A variant without the local authority check.
cmdCloseEntryAnyone(t) ==
  IF ~t.entryOpen
  THEN appendMessage(t, "system", "Entry is already closed.", Null)
  ELSE appendMessage(
         broadcast(closeEntry([t EXCEPT !.entryOpen = FALSE]), Msg("entry_closed"), Null),
         "system", "Entry closed. No new peers can join this channel.", Null)

cmdCloseEntry(t) ==
  IF ~t.isCreator
  THEN appendMessage(t, "system", "Only the channel creator can close entry.", Null)
  ELSE IF ~t.entryOpen
  THEN appendMessage(t, "system", "Entry is already closed.", Null)
  ELSE appendMessage(
         broadcast(closeEntry([t EXCEPT !.entryOpen = FALSE]), Msg("entry_closed"), Null),
         "system", "Entry closed. No new peers can join this channel.", Null)

cmdOpenEntry(t) ==
  IF ~t.isCreator
  THEN appendMessage(t, "system", "Only the channel creator can open entry.", Null)
  ELSE IF t.entryOpen
  THEN appendMessage(t, "system", "Entry is already open.", Null)
  ELSE appendMessage(
         broadcast(openEntry([t EXCEPT !.entryOpen = TRUE]), Msg("entry_opened"), Null),
         "system", "Entry reopened. New peers can join this channel.", Null)

CmdCloseEntry(n) ==
  /\ CanType(n)
  /\ toggles < MaxToggles
  /\ Commit(One(n, cmdCloseEntry([Tab(n) EXCEPT !.ev = Typed("/close_entry")])),
            chan, dialing)
  /\ toggles' = toggles + 1
  /\ UNCHANGED <<forged, chats, now, legacy>>

CmdOpenEntry(n) ==
  /\ CanType(n)
  /\ toggles < MaxToggles
  /\ Commit(One(n, cmdOpenEntry([Tab(n) EXCEPT !.ev = Typed("/open_entry")])),
            chan, dialing)
  /\ toggles' = toggles + 1
  /\ UNCHANGED <<forged, chats, now, legacy>>

\* The user acknowledges the destroyed or error screen.
ReturnToLanding(n) ==
  /\ screen[n] \in {"destroyed", "error"}
  /\ Step(One(n, transition(Tab(n), "landing")), chan, dialing)

cancelWaiting(t) ==
  transition([purgeKeys(destroy(t)) EXCEPT !.selfCodename = Null,
                                           !.channelId = Null],
             "landing")

CancelWaiting(n) ==
  /\ screen[n] = "waiting"
  /\ Step(One(n, cancelWaiting(Tab(n))), chan, dialing)

\* The user types a plain line.
SendMessage(n) ==
  /\ CanType(n)
  /\ chats < MaxChats
  /\ Commit(One(n, sendMessage(Tab(n), "hello")), chan, dialing)
  /\ chats' = chats + 1
  /\ UNCHANGED <<forged, toggles, now, legacy>>

\* ── main.js: the command dispatcher ─────────────────────────────
\* The white space the inputs of the model use.
Whitespace == {" ", "\t"}

\* String.prototype.trim
RECURSIVE trim(_)
trim(s) ==
  IF Len(s) > 0 /\ SubSeq(s, 1, 1) \in Whitespace
  THEN trim(SubSeq(s, 2, Len(s)))
  ELSE IF Len(s) > 0 /\ SubSeq(s, Len(s), Len(s)) \in Whitespace
  THEN trim(SubSeq(s, 1, Len(s) - 1))
  ELSE s

\* String.prototype.toLowerCase
RECURSIVE toLowerCase(_)
toLowerCase(s) ==
  IF Len(s) = 0 THEN s
  ELSE LET UpperCase == "ABCDEFGHIJKLMNOPQRSTUVWXYZ"
           LowerCase == "abcdefghijklmnopqrstuvwxyz"
           c == SubSeq(s, 1, 1)
           up == {i \in 1..Len(UpperCase) : SubSeq(UpperCase, i, i) = c}
           lc == IF up = {} THEN c
                 ELSE LET i == CHOOSE j \in up : TRUE IN SubSeq(LowerCase, i, i)
       IN lc \o toLowerCase(SubSeq(s, 2, Len(s)))

\* input.split(/\s+/)[0]: the characters before the first white space.
RECURSIVE firstWord(_)
firstWord(s) ==
  IF Len(s) = 0 \/ SubSeq(s, 1, 1) \in Whitespace THEN ""
  ELSE SubSeq(s, 1, 1) \o firstWord(SubSeq(s, 2, Len(s)))

\* The keys of the commands table.
commands ==
  {"/help", "/close", "/clear", "/whoami", "/status", "/ping", "/close_entry",
   "/open_entry"}

cmdHelp(t) == appendMessage(t, "system", "Available commands:", Null)

cmdClear(t) == send(clearMessages(t), Msg("clear"))

cmdWhoami(t) ==
  appendMessage(t, "system", "Codename, role, key fingerprint",
                IF t.isCreator THEN "creator" ELSE "joiner")

cmdStatus(t) ==
  appendMessage(t, "system", "Peers, entry, uptime, encryption",
                IF t.entryOpen THEN "open" ELSE "closed")

\* network.isConnected: some channel is open.
isConnected(t) == t.connections # {}

\* A variant that pings without noting the timestamp it sent.
cmdPingUntracked(t, ts) ==
  IF ~isConnected(t)
  THEN appendMessage(t, "system", "Not connected to any peers.", Null)
  ELSE LET t1 == [t EXCEPT !.sent = [q \in Nodes |->
                     IF q \in DOMAIN t.peers /\ q \in t.connections
                     THEN Append(@[q], PingMsg(ts)) ELSE @[q]]]
       IN appendMessage(t1, "system", "Ping sent to all peers...", Null)

\* cmdPing with ts the value Date.now() returns.
cmdPing(t, ts) ==
  IF ~isConnected(t)
  THEN appendMessage(t, "system", "Not connected to any peers.", Null)
  ELSE LET t1 == [t EXCEPT
                    !.pendingPings = [p \in DOMAIN @ \cup DOMAIN t.peers |->
                       IF p \in DOMAIN t.peers THEN ts ELSE @[p]],
                    !.sent = [q \in Nodes |->
                       IF q \in DOMAIN t.peers /\ q \in t.connections
                       THEN Append(@[q], PingMsg(ts)) ELSE @[q]]]
       IN appendMessage(t1, "system", "Ping sent to all peers...", Null)

\* A variant that looks the word up as typed.
handleCommandCaseSensitive(t, input, ts) ==
  LET cmd == firstWord(input)
  IN CASE cmd = "/help" -> cmdHelp(t)
       [] cmd = "/close" -> cmdClose(t)
       [] cmd = "/clear" -> cmdClear(t)
       [] cmd = "/whoami" -> cmdWhoami(t)
       [] cmd = "/status" -> cmdStatus(t)
       [] cmd = "/ping" -> cmdPing(t, ts)
       [] cmd = "/close_entry" -> cmdCloseEntry(t)
       [] cmd = "/open_entry" -> cmdOpenEntry(t)
       [] OTHER -> appendMessage(t, "system", "Unknown command", cmd)

handleCommand(t, input, ts) ==
  LET cmd == firstWord(toLowerCase(input))
  IN CASE cmd = "/help" -> cmdHelp(t)
       [] cmd = "/close" -> cmdClose(t)
       [] cmd = "/clear" -> cmdClear(t)
       [] cmd = "/whoami" -> cmdWhoami(t)
       [] cmd = "/status" -> cmdStatus(t)
       [] cmd = "/ping" -> cmdPing(t, ts)
       [] cmd = "/close_entry" -> cmdCloseEntry(t)
       [] cmd = "/open_entry" -> cmdOpenEntry(t)
       [] OTHER -> appendMessage(t, "system", "Unknown command", cmd)

\* The Enter key in the chat input, and sendMessage up to its await:
\* blank lines are dropped, lines whose trimmed text starts with a
\* slash go to the dispatcher, anything else is encrypted and sent.
chatInputEnter(t, text, ts) ==
  LET trimmed == trim(text)
  IN IF trimmed = "" THEN t
     ELSE IF StartsWith(trimmed, "/") THEN handleCommand(t, trimmed, ts)
     ELSE sendMessage(t, text)

\* What the users of the model type.
Inputs ==
  {"hello", "  ", "/help", " /Whoami ", "/status", "/clear",
   "/Close_Entry\tnow", "/bogus", "  /closeentry", "/", "/help/close"}

\* The user enters one of the lines T in the chat input.  Lines that
\* hand something to the channels count against the bounds of the run.
ChatInput(n, T) ==
  /\ CanType(n)
  /\ \E text \in T :
       LET trimmed == trim(text)
           cmd == IF StartsWith(trimmed, "/") THEN firstWord(toLowerCase(trimmed))
                  ELSE ""
           chat == trimmed # "" /\ (cmd = "" \/ cmd = "/clear")
           toggle == cmd \in {"/close_entry", "/open_entry"}
           ping == cmd = "/ping"
       IN /\ chat => chats < MaxChats
          /\ toggle => toggles < MaxToggles
          /\ ping => now <= MaxPings
          /\ Commit(One(n, chatInputEnter([Tab(n) EXCEPT !.ev = Entered(text)],
                                          text, now)),
                    chan, dialing)
          /\ chats' = IF chat THEN chats + 1 ELSE chats
          /\ toggles' = IF toggle THEN toggles + 1 ELSE toggles
          /\ now' = IF ping THEN now + 1 ELSE now
          /\ UNCHANGED <<forged, legacy>>

\* The files the users of the model pick: at the ceiling, one byte
\* over it, and a small one.
Files ==
  {FileMetadata(8, size) : size \in {768, MAX_FILE_SIZE, MAX_FILE_SIZE + 1}}

Attached(file) ==
  [op |-> "attach", from |-> Null, type |-> "file",
   data |-> FileMsg([NoPayload EXCEPT !.file = file])]

\* The user attaches (or drops) a file.
SendFile(n) ==
  /\ CanType(n)
  /\ chats < MaxChats
  /\ \E file \in Files :
       Commit(One(n, sendFile([Tab(n) EXCEPT !.ev = Attached(file)], file)),
              chan, dialing)
  /\ chats' = chats + 1
  /\ UNCHANGED <<forged, toggles, now, legacy>>

\* The handler main registers for beforeunload once the session is in
\* chat (and removes in destroySession).
beforeUnloadHandler(t) ==
  broadcast(t, [Msg("leave") EXCEPT !.codename = t.selfCodename], Null)

\* The user closes the tab: the beforeunload handler runs if it is
\* registered, then the page goes away with its channels, its
\* registration, its timers and its suspended handlers.
TabClose(n) ==
  /\ started[n]
  /\ screen[n] # "closed"
  /\ LET t == Tab(n)
         t1 == IF t.state = "chat" THEN beforeUnloadHandler(t) ELSE t
         t2 == [destroy(t1) EXCEPT !.screen = "closed", !.inputEnabled = FALSE,
                                   !.tasks = {}, !.timers = 0, !.stale = 0,
                                   !.join = [@ EXCEPT !.timeout = FALSE]]
     IN Step(One(n, t2), chan, dialing)

\* ── Modified clients ────────────────────────────────────────────
\* What a client that does not run this code may hand to a channel it
\* holds: control messages it has no authority for, repeated or
\* malformed key exchanges, and chat payloads it did not sign properly.
AuthorityForgeries == {Msg("close"), Msg("entry_closed"), Msg("entry_opened")}

KeyExchangeForgeries(p) ==
  {KeyExchangeMsg(generateCodename(p), ArmoredKey(p)),
   KeyExchangeMsg("", ArmoredKey(p)),
   KeyExchangeMsg(LongCodename, ArmoredKey(p)),
   KeyExchangeMsg(generateCodename(p), NotAKey),
   KeyExchangeMsg(generateCodename(p), BrokenKey)}

\* Payloads encrypted to q: unsigned, signed with a key that is not
\* p's, not addressed to q at all, or not an armored block.
BadPayloads(p, q, text, file) ==
  {[text |-> text, file |-> file, to |-> {q}, signer |-> s, armored |-> TRUE] :
     s \in {Null, q}}
  \cup {[text |-> text, file |-> file, to |-> {}, signer |-> p, armored |-> TRUE],
        [text |-> text, file |-> file, to |-> {q}, signer |-> p, armored |-> FALSE]}

ChatForgeries(p, q) == {ChatMsg(pl) : pl \in BadPayloads(p, q, "forged", NoFile)}

\* A small file under a short name.
SmallFile == [json |-> TRUE, fileName |-> 8, fileSize |-> 768, data |-> 1024]

FileForgeries(p, q) == {FileMsg(pl) : pl \in BadPayloads(p, q, "{}", SmallFile)}

\* File payloads a client that skips sendFile's test may send, properly
\* encrypted and signed: files at and around the ceiling and around the
\* receiver's limit on the encoded length, names that are empty, of
\* 255 and of 256 characters, empty data, and text that is not JSON.
CraftedFiles(p, q) ==
  LET sizes == {MAX_FILE_SIZE, MAX_FILE_SIZE + 1, 2154822, 2154824}
      metas == {FileMetadata(8, size) : size \in sizes}
               \cup {FileMetadata(len, 768) : len \in {0, 255, 256}}
               \cup {FileMetadata(0, MAX_FILE_SIZE + 1),
                     [FileMetadata(8, 768) EXCEPT !.data = 0],
                     [FileMetadata(8, 768) EXCEPT !.json = FALSE]}
  IN {FileMsg([text |-> "{}", file |-> f, to |-> {q}, signer |-> p,
               armored |-> TRUE]) : f \in metas}

Forge(p, q, m) ==
  /\ forged < MaxForged
  /\ p # q
  /\ q \in connections[p]
  /\ Commit(One(p, sendTo(Tab(p), q, m)), chan, dialing)
  /\ forged' = forged + 1
  /\ UNCHANGED <<chats, toggles, now, legacy>>

\* A modified client sends m in place of the key_exchange its
\* connection set-up would send.
ForgeInstead(p, q, m) ==
  /\ forged < MaxForged
  /\ <<p, q>> \in Pairs
  /\ chan[<<p, q>>] # <<>>
  /\ Head(chan[<<p, q>>]).type = "key_exchange"
  /\ Commit(One(p, Tab(p)), [chan EXCEPT ![<<p, q>>] = <<m>> \o Tail(@)], dialing)
  /\ forged' = forged + 1
  /\ UNCHANGED <<chats, toggles, now, legacy>>

\* ── network.js of the single-peer build ────────────────────────
\* conn && conn.open
connIsOpen(L) == L.conn # Null /\ L.dials[L.conn] = "open"

\* A variant that takes every inbound connection.
onConnectionEvery(L, k) ==
  [L EXCEPT !.linkBurned = TRUE, !.conn = k, !.dials[k] = "accepted"]

\* peer.on("connection") in createChannel, for the attempt k.
onConnection(L, k) ==
  IF L.linkBurned
  THEN [L EXCEPT !.dials[k] = "closed"]
  ELSE [L EXCEPT !.linkBurned = TRUE, !.conn = k, !.dials[k] = "accepted"]

\* A variant that reconnects whether or not the link is burned.
onDisconnectedAlways(L) ==
  IF L.peer # "none"
  THEN [L EXCEPT !.peer = "opening", !.reconnects = @ + 1]
  ELSE L

\* peer.on("disconnected") in createChannel; the peer is not destroyed
\* while network.js holds it.
onDisconnected(L) ==
  IF ~L.linkBurned /\ L.peer # "none"
  THEN [L EXCEPT !.peer = "opening", !.reconnects = @ + 1]
  ELSE L

\* conn.on("open") in createChannel: setupConnection(conn), which ends
\* by calling connectionReady, then peer.disconnect(), which raises
\* the disconnected event if the peer was registered.
onConnOpen(L, k) ==
  LET L1 == [L EXCEPT !.dials[k] = "open"]
      L2 == [L1 EXCEPT !.wired = @ \cup {L1.conn}, !.ready = @ \cup {L1.conn}]
  IN IF L2.peer = "open"
     THEN onDisconnected([L2 EXCEPT !.peer = "disconnected"])
     ELSE L2

\* A variant that hands the data to the handle whether or not it is open.
legacySendAlways(L, data) ==
  IF L.conn # Null THEN [L EXCEPT !.sent = Append(@, data)] ELSE L

\* send
legacySend(L, data) ==
  IF connIsOpen(L) THEN [L EXCEPT !.sent = Append(@, data)] ELSE L

\* destroy: the handle is closed, the peer destroyed, and the module is
\* back to what it was when loaded.
legacyDestroy(L) ==
  [L EXCEPT !.dials = [k \in Dialers |->
                        IF k = L.conn /\ @[k] \in {"accepted", "open"} THEN "closed"
                        ELSE @[k]],
            !.conn = Null, !.peer = "none", !.linkBurned = FALSE,
            !.wired = {}, !.ready = {}, !.sent = <<>>]

\* ── main.js of the single-peer build ───────────────────────────
\* A variant without the test for a completed exchange.
legacyHandleKeyExchangeAlways(L, data) ==
  IF ~ValidCodename(data.codename) \/ ~ValidKeyBlock(data.publicKey)
  THEN L
  ELSE [L EXCEPT !.peerCodename = data.codename, !.imports = @ \cup {data}]

\* handleKeyExchange up to the await on crypto.importPeerKey.
legacyHandleKeyExchange(L, data) ==
  IF L.state = "chat" THEN L
  ELSE IF ~ValidCodename(data.codename) \/ ~ValidKeyBlock(data.publicKey)
  THEN L
  ELSE [L EXCEPT !.peerCodename = data.codename, !.imports = @ \cup {data}]

\* handleKeyExchange after the await: the import has stored the key, or
\* openpgp.readKey has thrown and the catch block shows the error.
legacyHandleKeyExchangeResume(L, data) ==
  LET L1 == [L EXCEPT !.imports = @ \ {data}]
  IN IF ~ReadKeyOk(data.publicKey) THEN L1
     ELSE [L1 EXCEPT !.peerPublicKey = data.publicKey, !.state = "chat"]

\* cancelWaiting
legacyCancelWaiting(L) ==
  [legacyDestroy(L) EXCEPT !.peerPublicKey = Null, !.state = "landing"]

\* destroySession
legacyDestroySession(L) ==
  IF L.state = "destroyed" THEN L
  ELSE [legacyDestroy(L) EXCEPT !.peerPublicKey = Null, !.peerCodename = Null,
                                !.state = "destroyed"]

\* One step of the single-peer build: everything of the mesh build
\* stays as it is.
LegacyStep(op, k, L) ==
  /\ legacy' = L
  /\ out' = [NoOut EXCEPT !.at = "legacy", !.ev.op = op, !.ev.from = k]
  /\ UNCHANGED <<mainVars, uiVars, cryptoVars, netVars, loopVars, runVars>>

\* The create button on the landing screen: createChannel up to the
\* await on network.createChannel, which runs new Peer(peerId).
LegacyCreate ==
  /\ legacy.peer = "none"
  /\ legacy.state = "landing"
  /\ LegacyStep("createChannel", Null, [legacy EXCEPT !.peer = "opening"])

\* peer.on("open"): the rendezvous server acknowledged the id.  The
\* first time createChannel resolves and main.js shows the waiting
\* screen.
LegacyRegistered ==
  /\ legacy.peer = "opening"
  /\ LegacyStep("open", Null,
                [legacy EXCEPT !.peer = "open",
                               !.state = IF @ = "landing" THEN "waiting" ELSE @])

\* Somebody opens the link: the attempt reaches the creator while it is
\* registered and fails with peer-unavailable otherwise.
LegacyDial(k) ==
  /\ legacy.dials[k] = "idle"
  /\ IF legacy.peer = "open"
     THEN LegacyStep("connection", k, onConnection(legacy, k))
     ELSE LegacyStep("peer-unavailable", k, [legacy EXCEPT !.dials[k] = "unavailable"])

\* The data channel of the accepted attempt opens.
LegacyConnOpen(k) ==
  /\ legacy.dials[k] = "accepted"
  /\ LegacyStep("conn-open", k, onConnOpen(legacy, k))

\* The accepted attempt k dies before its data channel opens (the far
\* end goes away, or no route is found): nothing is registered on the
\* handle yet, so no handler of network.js runs.
LegacyAbandon(k) ==
  /\ legacy.dials[k] = "accepted"
  /\ LegacyStep("conn-failed", k, [legacy EXCEPT !.dials[k] = "failed"])

\* The far end closes an open data channel.
LegacyHangUp(k) ==
  /\ legacy.dials[k] = "open"
  /\ LegacyStep("conn-close", k, [legacy EXCEPT !.dials[k] = "closed"])

\* The rendezvous server drops the creator's socket.
LegacyDrop ==
  /\ legacy.peer = "open"
  /\ legacy.drops < MaxDrops
  /\ LegacyStep("disconnected", Null,
                onDisconnected([legacy EXCEPT !.peer = "disconnected",
                                              !.drops = @ + 1]))

\* main.js hands a message to send.
LegacySend ==
  /\ Len(legacy.sent) < MaxSends
  /\ LegacyStep("send", Null, legacySend(legacy, "data"))

\* main.js calls destroy: the cancel button of the waiting screen, or
\* destroySession (by /close, or a teardown timer) once in chat.
LegacyDestroy ==
  /\ legacy.state \in {"waiting", "chat"}
  /\ LegacyStep("destroy", Null,
                IF legacy.state = "waiting" THEN legacyCancelWaiting(legacy)
                ELSE legacyDestroySession(legacy))

\* The key_exchange messages the far end of the single-peer build may
\* send: its own, one under another name with another key, and one
\* whose key is not a key block.
LegacyKeyExchanges ==
  {KeyExchangeMsg(generateCodename(B), ArmoredKey(B)),
   KeyExchangeMsg(generateCodename(C), ArmoredKey(C)),
   KeyExchangeMsg(generateCodename(B), NotAKey)}

\* A key_exchange arrives on the open, wired connection.
LegacyKeyExchange(m) ==
  /\ connIsOpen(legacy)
  /\ legacy.conn \in legacy.wired
  /\ legacy' = legacyHandleKeyExchange(legacy, m)
  /\ out' = [NoOut EXCEPT !.at = "legacy", !.ev.op = "key_exchange",
                          !.ev.from = legacy.conn, !.ev.data = m]
  /\ UNCHANGED <<mainVars, uiVars, cryptoVars, netVars, loopVars, runVars>>

\* The import a key_exchange handler waits for resolves or throws.
LegacyKeyImported ==
  \E m \in legacy.imports :
    /\ legacy' = legacyHandleKeyExchangeResume(legacy, m)
    /\ out' = [NoOut EXCEPT !.at = "legacy", !.ev.op = "key-imported",
                            !.ev.data = m]
    /\ UNCHANGED <<mainVars, uiVars, cryptoVars, netVars, loopVars, runVars>>

\* ── Specifications ──────────────────────────────────────────────
\* Registration, connection set-up and message handling among tabs P.
Handshake(P) ==
  \/ \E n \in P : CreateChannel(n)
  \/ \E n \in P : CreateKeysReady(n)
  \/ \E n \in P : JoinChannel(n)
  \/ \E n \in P : JoinKeysReady(n)
  \/ \E n \in P : PeerOpen(n)
  \/ \E d \in dialing : ConnOpen(d)
  \/ \E d \in dialing : DialUnavailable(d)
  \/ \E p, q \in P : Deliver(p, q)
  \/ \E n \in P : Resume(n)

\* Three tabs forming the mesh while the creator may close entry.
NextMesh ==
  \/ Handshake(Nodes)
  \/ CmdCloseEntry(A)

SpecMesh == Init /\ [][NextMesh]_vars

\* Two tabs, creator and joiner, through the whole life of a session:
\* failures to register or to connect, /close from either side, the
\* scheduled destructions and the return to the landing screen.
NextPair ==
  \/ Handshake({A, B})
  \/ \E n \in {A, B} : PeerError(n)
  \/ \E n \in {A, B} : JoinTimeout(n)
  \/ \E n \in {A, B} : TimerFire(n)
  \/ \E n \in {A, B} : CmdClose(n)
  \/ \E n \in {A, B} : SendMessage(n)
  \/ \E n \in {A, B} : ReturnToLanding(n)
  \/ \E n \in {A, B} : CancelWaiting(n)

SpecPair == Init /\ [][NextPair]_vars

\* Two tabs while the creator toggles entry and either tab may inject
\* control messages it has no authority for.
NextGate ==
  \/ Handshake({A, B})
  \/ \E n \in {A, B} : CmdCloseEntry(n)
  \/ \E n \in {A, B} : CmdOpenEntry(n)
  \/ \E p, q \in {A, B} : \E m \in AuthorityForgeries : Forge(p, q, m)

SpecGate == Init /\ [][NextGate]_vars

\* Two tabs of which either may repeat or garble its key_exchange.
NextKeys ==
  \/ Handshake({A, B})
  \/ \E p, q \in {A, B} : \E m \in KeyExchangeForgeries(p) : Forge(p, q, m)
  \/ \E p, q \in {A, B} : \E m \in KeyExchangeForgeries(p) : ForgeInstead(p, q, m)

SpecKeys == Init /\ [][NextKeys]_vars

\* Two tabs chatting while either may inject chat and file payloads it
\* did not sign properly.
NextChat ==
  \/ Handshake({A, B})
  \/ \E n \in {A, B} : SendMessage(n)
  \/ \E p, q \in {A, B} : \E m \in ChatForgeries(p, q) : Forge(p, q, m)
  \/ \E p, q \in {A, B} : \E m \in FileForgeries(p, q) : Forge(p, q, m)

SpecChat == Init /\ [][NextChat]_vars

\* Three tabs: the third joins once the first two are chatting, the
\* creator may type /close at any time, and the scheduled destructions
\* fire.
NextClose ==
  \/ Handshake({A, B})
  \/ state[A] = "chat" /\ state[B] = "chat" /\ JoinChannel(C)
  \/ JoinKeysReady(C)
  \/ PeerOpen(C)
  \/ \E p \in {A, B} : Deliver(p, C) \/ Deliver(C, p)
  \/ Resume(C)
  \/ CmdClose(A)
  \/ \E n \in Nodes : TimerFire(n)

SpecClose == Init /\ [][NextClose]_vars

\* A tab that joins once the tabs of P are chatting, and everything it
\* exchanges with them.
LateJoiner(n, P) ==
  \/ (\A p \in P : state[p] = "chat") /\ JoinChannel(n)
  \/ JoinKeysReady(n)
  \/ PeerOpen(n)
  \/ \E p \in P : Deliver(p, n) \/ Deliver(n, p)
  \/ Resume(n)

\* Three tabs: the third joins once the first two are chatting, while
\* the creator locks and unlocks entry.
NextEntry ==
  \/ Handshake({A, B})
  \/ LateJoiner(C, {A, B})
  \/ CmdCloseEntry(A)
  \/ CmdOpenEntry(A)

SpecEntry == Init /\ [][NextEntry]_vars

\* The same, with the third tab's attempt taken by the creator some
\* time before its channel opens.
NextAdmit ==
  \/ NextEntry
  \/ \E d \in dialing : ConnAccept(d)

SpecAdmit == Init /\ [][NextAdmit]_vars

\* Three tabs: the third joins once the first two are chatting and may
\* close its tab at any time.
NextLeave ==
  \/ Handshake({A, B})
  \/ LateJoiner(C, {A, B})
  \/ TabClose(C)

SpecLeave == Init /\ [][NextLeave]_vars

\* Three tabs: the third joins once the first two are chatting; the
\* creator and the late joiner may close their tabs, and the scheduled
\* destructions fire.
NextChurn ==
  \/ Handshake({A, B})
  \/ LateJoiner(C, {A, B})
  \/ \E n \in {A, C} : TabClose(n)
  \/ \E n \in Nodes : TimerFire(n)

SpecChurn == Init /\ [][NextChurn]_vars

\* The same with the second tab closing too, under the scheduling of
\* the browser: a timer that is due fires, an event that is queued is
\* handled, a promise that is pending settles and a connection attempt
\* ends one way or the other.  Nothing obliges a user to act.
NextStrand ==
  \/ Handshake({A, B})
  \/ LateJoiner(C, {A, B})
  \/ \E n \in {A, B} : TabClose(n)
  \/ \E n \in Nodes : TimerFire(n)

FairStrand ==
  /\ \A n \in Nodes :
       /\ WF_vars(TimerFire(n))
       /\ WF_vars(Resume(n))
       /\ WF_vars(PeerOpen(n))
       /\ WF_vars(CreateKeysReady(n))
       /\ WF_vars(JoinKeysReady(n))
  /\ \A pq \in Pairs : WF_vars(Deliver(pq[1], pq[2]))
  /\ WF_vars(\E d \in dialing : ConnOpen(d) \/ DialUnavailable(d))

SpecStrand == Init /\ [][NextStrand]_vars /\ FairStrand

\* Two tabs of which either may close, while the creator locks and
\* unlocks entry and the scheduled destructions fire.
NextDepart ==
  \/ Handshake({A, B})
  \/ \E n \in {A, B} : TabClose(n)
  \/ \E n \in {A, B} : TimerFire(n)
  \/ CmdCloseEntry(A)
  \/ CmdOpenEntry(A)

SpecDepart == Init /\ [][NextDepart]_vars

\* Two tabs; on the creator's tab a join link may arrive while its
\* createChannel is suspended.  The join started that way is followed up
\* to its await on the keypair.
NextRole ==
  \/ CreateChannel(A)
  \/ CreateKeysReady(A)
  \/ HashChangeJoin(A)
  \/ JoinChannel(B)
  \/ JoinKeysReady(B)
  \/ \E n \in {A, B} : PeerOpen(n)
  \/ \E n \in {A, B} : PeerError(n)
  \/ \E d \in dialing : ConnOpen(d)
  \/ \E d \in dialing : DialUnavailable(d)
  \/ \E p, q \in {A, B} : Deliver(p, q)
  \/ \E n \in {A, B} : Resume(n)
  \/ \E n \in {A, B} : CmdClose(n)
  \/ \E n \in {A, B} : TimerFire(n)
  \/ \E n \in {A, B} : CancelWaiting(n)

SpecRole == Init /\ [][NextRole]_vars

\* Two tabs whose users type plain lines, commands and things that
\* are neither.
NextInput ==
  \/ Handshake({A, B})
  \/ \E n \in {A, B} : ChatInput(n, Inputs)

SpecInput == Init /\ [][NextInput]_vars

\* Pings and pongs a modified client may send: unsolicited, repeated,
\* or with a timestamp of its own.
PingForgeries == {PingMsg(ts) : ts \in {0, MaxPings + 2}}

PongForgeries == {PongMsg(ts) : ts \in 0..(MaxPings + 1)}

\* Two tabs measuring round-trip times while either may inject pings
\* and pongs.
NextPing ==
  \/ Handshake({A, B})
  \/ \E n \in {A, B} : ChatInput(n, {"/ping", "/PING now"})
  \/ \E p, q \in {A, B} : \E m \in PingForgeries \cup PongForgeries : Forge(p, q, m)

SpecPing == Init /\ [][NextPing]_vars

\* Two tabs exchanging files and chat lines, while the joiner may
\* send file payloads its own sendFile would not have sent and chat
\* payloads the creator cannot decrypt.
NextFile ==
  \/ Handshake({A, B})
  \/ \E n \in {A, B} : SendFile(n)
  \/ SendMessage(B)
  \/ \E m \in CraftedFiles(B, A) \cup FileForgeries(B, A) \cup ChatForgeries(B, A) :
       Forge(B, A, m)

SpecFile == Init /\ [][NextFile]_vars

\* The creator's tab of the single-peer build: one channel after
\* another, three parties opening the link at any time, the server
\* dropping the socket, main.js sending whenever it likes.
NextLegacy ==
  \/ LegacyCreate
  \/ LegacyRegistered
  \/ \E k \in Dialers : LegacyDial(k)
  \/ \E k \in Dialers : LegacyConnOpen(k)
  \/ \E k \in Dialers : LegacyHangUp(k)
  \/ LegacyDrop
  \/ LegacySend
  \/ LegacyDestroy

SpecLegacy == Init /\ [][NextLegacy]_vars

\* The same, with attempts that die before their channel opens, under
\* the scheduling of the browser: the server's acknowledgement arrives
\* and the channel of a live attempt opens.  Nothing obliges the user
\* to cancel or the parties to dial.
NextJam ==
  \/ NextLegacy
  \/ \E k \in Dialers : LegacyAbandon(k)

FairJam ==
  /\ WF_vars(LegacyRegistered)
  /\ \A k \in Dialers : WF_vars(LegacyConnOpen(k))

SpecJam == Init /\ [][NextJam]_vars /\ FairJam

\* What a modified client p may send to give peer x another name and
\* another key (the key of a tab that is not in the session): a
\* key_exchange of its own, and the announcements only the creator is
\* listened to for.
Rekeyings(p) ==
  {KeyExchangeMsg("mallory", ArmoredKey(C))}
  \cup {PeerJoinedMsg(x, "mallory", ArmoredKey(C)) : x \in {A, B}}
  \cup {PeerListMsg(<<[peerId |-> x, codename |-> "mallory",
                       publicKey |-> ArmoredKey(C)]>>) : x \in {A, B}}

\* Two tabs of which either may try to replace a key the other holds,
\* next to the creator's tab of the single-peer build, whose far end
\* may send one key_exchange after another.
NextRekey ==
  \/ Handshake({A, B})
  \/ \E p, q \in {A, B} : \E m \in Rekeyings(p) : Forge(p, q, m)
  \/ LegacyCreate
  \/ LegacyRegistered
  \/ LegacyDial("j1")
  \/ LegacyConnOpen("j1")
  \/ \E m \in LegacyKeyExchanges : LegacyKeyExchange(m)
  \/ LegacyKeyImported

SpecRekey == Init /\ [][NextRekey]_vars

\* Two tabs through one session and the joiner's next: the creator
\* may type /close, the teardown timers fire, and the joiner may return
\* to the landing screen and follow the link again.
NextAnew ==
  \/ Handshake({A, B})
  \/ CmdClose(A)
  \/ \E n \in {A, B} : TimerFire(n)
  \/ ReturnToLanding(B)
  \/ JoinAnew(B)

SpecAnew == Init /\ [][NextAnew]_vars

\* The leave messages a modified client may send: each names a tab,
\* its own or another, by id and by codename.
LeaveForgeries ==
  {[Msg("leave") EXCEPT !.peerId = x, !.codename = generateCodename(x)] :
     x \in Nodes}

\* Three tabs: the third joins once the first two are chatting and
\* may close its tab, and every tab may send leave messages naming
\* anybody over the channels it holds.
NextQuit ==
  \/ Handshake({A, B})
  \/ LateJoiner(C, {A, B})
  \/ TabClose(C)
  \/ \E p, q \in Nodes : \E m \in LeaveForgeries : Forge(p, q, m)

SpecQuit == Init /\ [][NextQuit]_vars

\* ── Claims ──────────────────────────────────────────────────────
\* The id under which tab q expects its channel's creator.
DerivedCreatorId(q) == CHANNEL_PREFIX \o channelId[q]

\* Everything tab q holds.
Session(q) ==
  <<state[q], selfCodename[q], peers[q], channelId[q], isCreator[q],
    entryOpen[q], sessionStartTime[q], pendingPings[q], screen[q],
    inputEnabled[q], privateKey[q], publicKeyArmored[q], peerKeys[q],
    peer[q], connections[q], join[q], timers[q], tasks[q]>>

\* What tab q has handed to its channels and not yet seen delivered.
Outbound(q) == [x \in Nodes \ {q} |-> chan[<<q, x>>]]

\* The last step was tab q taking a message of this type off a channel.
Handled(q, type) == out.at = q /\ out.ev.op = "data" /\ out.ev.type = type

\* The last step was tab q continuing this handler after its await.
Resumed(q, h) == out.at = q /\ out.ev.op = "resume" /\ out.ev.type = h

\* C1: a close whose sender is not the creator's derived id changes
\* nothing at the receiver (session state, membership, key store, entry
\* flag, no teardown scheduled, nothing shown or sent); a close from the
\* derived id disables the input and schedules the teardown.
C1_CloseOnlyFromCreator ==
  [][\A q \in Nodes :
       Handled(q, "close")' =>
         IF out'.ev.from = DerivedCreatorId(q)
         THEN timers'[q] = timers[q] + 1 /\ ~inputEnabled'[q]
         ELSE /\ Session(q)' = Session(q)
              /\ Outbound(q)' = Outbound(q)
              /\ out'.lines = <<>>]_vars

\* A chatting tab has just ignored a close from a sender that is not
\* its creator.
C1_Witness ==
  /\ out.at \in Nodes
  /\ Handled(out.at, "close")
  /\ out.ev.from # DerivedCreatorId(out.at)
  /\ state[out.at] = "chat"
  /\ timers[out.at] = 0

\* C2: the entry flag changes on a wire message only when entry_closed
\* or entry_opened arrives from the creator's derived id, and then it
\* mirrors the message; the same messages from any other sender leave
\* the whole session as it was.
C2_EntryFlagOnlyFromCreator ==
  [][\A q \in Nodes :
       /\ (out'.at = q /\ out'.ev.op \in {"data", "resume"}
             /\ entryOpen'[q] # entryOpen[q]) =>
            /\ out'.ev.op = "data"
            /\ out'.ev.from = DerivedCreatorId(q)
            /\ out'.ev.type = IF entryOpen'[q] THEN "entry_opened" ELSE "entry_closed"
       /\ (Handled(q, "entry_closed")' \/ Handled(q, "entry_opened")') =>
            IF out'.ev.from = DerivedCreatorId(q)
            THEN entryOpen'[q] = (out'.ev.type = "entry_opened")
            ELSE /\ Session(q)' = Session(q)
                 /\ Outbound(q)' = Outbound(q)
                 /\ out'.lines = <<>>]_vars

\* A tab whose entry flag is open has just ignored an entry_closed from
\* a sender that is not its creator.
C2_Witness ==
  /\ out.at \in Nodes
  /\ Handled(out.at, "entry_closed")
  /\ out.ev.from # DerivedCreatorId(out.at)
  /\ state[out.at] = "chat"
  /\ entryOpen[out.at]

C4_ResolvesAfterKeyExchange ==
  [][\A n \in Joiners :
       (join[n].outcome # "resolved" /\ join'[n].outcome = "resolved") =>
         \/ A \in DOMAIN peerKeys'[n]
         \/ n \in DOMAIN peerKeys'[A]]_vars

\* C4 amended: the join settles once and for all; it resolves in the
\* step that opens the channel to the creator, with the joiner's own
\* key_exchange handed to that channel and before the creator's is
\* handled, or it rejects with exactly one of peer-unavailable,
\* request-timeout or a network error, which shows the error screen.
C4_JoinSettlesOnce ==
  [][\A n \in Joiners :
       /\ join[n].settled => (join'[n].settled /\ join'[n].outcome = join[n].outcome)
       /\ (~join[n].settled /\ join'[n].settled) =>
            \/ /\ join'[n].outcome = "resolved"
               /\ A \in connections'[n]
               /\ chan'[<<n, A>>] =
                    <<KeyExchangeMsg(selfCodename[n], publicKeyArmored[n])>>
               /\ state'[n] = "landing"
            \/ /\ join'[n].outcome \in {"peer-unavailable", "request-timeout", "network"}
               /\ A \notin connections'[n]
               /\ screen'[n] = "error"
               /\ state'[n] = "landing"]_vars

\* A join has resolved while neither side has imported the other's key.
C4_Witness ==
  \E n \in Joiners :
    /\ join[n].outcome = "resolved"
    /\ A \in connections[n]
    /\ A \notin DOMAIN peerKeys[n]
    /\ n \notin DOMAIN peerKeys[A]

\* Nothing is in flight: no attempt is pending, every queue is empty
\* and no handler is suspended.
Quiet ==
  /\ dialing = {}
  /\ \A pq \in Pairs : chan[pq] = <<>>
  /\ \A n \in Nodes : tasks[n] = {} /\ peer[n] # "opening" /\ timers[n] = 0

\* C5: once both joiners have completed their key exchange with the
\* creator and nothing is left in flight, B and C hold a direct open
\* channel and record each other as connected, with each other's key.
C5_MeshOfThree ==
  (Quiet /\ \A n \in Joiners : A \in DOMAIN peerKeys[n] /\ n \in DOMAIN peerKeys[A]) =>
    \A n \in Joiners : \A m \in Joiners \ {n} :
      /\ m \in connections[n]
      /\ m \in DOMAIN peers[n]
      /\ peers[n][m].connected
      /\ m \in DOMAIN peerKeys[n]

\* C6: once the creator's /close has run its teardown and nothing is
\* left in flight, the creator and the peer that was connected to it
\* are destroyed and hold no key material.  (B is connected to A
\* whenever A can type /close in SpecClose.)
C6_CloseDestroysAll ==
  (Quiet /\ started[A] /\ peer[A] = "none") =>
    \A n \in {A, B} :
      /\ state[n] = "destroyed"
      /\ getFingerprint(Tab(n)) = Null
      /\ peerKeys[n] = EmptyMap

\* C7: from destroyed the state never becomes waiting or chat; it only
\* stays, or becomes landing when the user returns.
C7_DestroyedIsTerminal ==
  [][\A n \in Nodes :
       state[n] = "destroyed" =>
         \/ state'[n] = "destroyed"
         \/ state'[n] = "landing" /\ out'.at = n /\ out'.ev.op = "step"]_vars

\* C8: a destroyed session holds no private key, no peer key, no
\* member, no pending ping and no channel handle.
C8_DestroyedHoldsNothing ==
  \A n \in Nodes :
    state[n] = "destroyed" =>
      /\ privateKey[n] = Null
      /\ peerKeys[n] = EmptyMap
      /\ peers[n] = EmptyMap
      /\ pendingPings[n] = EmptyMap
      /\ connections[n] = {}

\* The payload decrypts at tab n.
Decryptable(n, pl) ==
  pl.armored /\ privateKey[n] # Null /\ privateKey[n] \in pl.to

\* The payload's signature verifies under the key tab n holds for its
\* sender.
SignatureOk(n, sender, pl) ==
  /\ pl.signer # Null
  /\ sender \in DOMAIN peerKeys[n]
  /\ peerKeys[n][sender] = ArmoredKey(pl.signer)

\* File metadata that passes handleFileMessage's validation.
AcceptableFile(f) ==
  f.json /\ f.data > 0 /\ f.data <= 2873098 /\ f.fileName > 0 /\ f.fileName <= 255

\* C9: a chat or file message that decrypts but whose signature does
\* not verify, or whose sender has no known key, is shown as plaintext
\* marked unverified and followed by the tamper warning; it is not
\* replaced by a decryption error.
C9_UnverifiedStillDelivered ==
  [][\A n \in Nodes :
       LET pl == out'.ev.data.payload
           sender == out'.ev.from
       IN ((Resumed(n, "chat")' \/ (Resumed(n, "file")' /\ AcceptableFile(pl.file)))
            /\ Decryptable(n, pl) /\ ~SignatureOk(n, sender, pl)) =>
            /\ Len(out'.lines) = 2
            /\ out'.lines[1].kind = "peer"
            /\ out'.lines[1].what = out'.ev.type
            /\ out'.lines[1].unverified
            /\ Resumed(n, "chat")' => out'.lines[1].text = pl.text
            /\ out'.lines[2].kind = "error"
            /\ StartsWith(out'.lines[2].what, "WARNING: Signature verification failed")]_vars

\* A chat message from a sender that signed with a key other than the
\* one the receiver holds for it has just been shown, marked unverified.
C9_Witness ==
  /\ out.at \in Nodes
  /\ Resumed(out.at, "chat")
  /\ out.ev.data.payload.signer \notin {Null, out.ev.from}
  /\ out.ev.from \in DOMAIN peerKeys[out.at]
  /\ Len(out.lines) = 2
  /\ out.lines[1].unverified
  /\ out.lines[1].text = "forged"

\* C10: a key_exchange from a peer already recorded as connected
\* leaves the membership map and the key store as they were, starts no
\* import, sends nothing (no peer_list, no peer_joined) and shows no
\* "has joined" line.
C10_DuplicateKeyExchangeIgnored ==
  [][\A q \in Nodes :
       (/\ Handled(q, "key_exchange")'
        /\ out'.ev.from \in DOMAIN peers[q]
        /\ peers[q][out'.ev.from].connected) =>
         /\ peers'[q] = peers[q]
         /\ peerKeys'[q] = peerKeys[q]
         /\ tasks'[q] = tasks[q]
         /\ state'[q] = state[q]
         /\ Outbound(q)' = Outbound(q)
         /\ \A i \in 1..Len(out'.lines) :
              out'.lines[i].what # "has joined the channel."]_vars

\* A well-formed key_exchange has just been ignored by a tab that had
\* already completed the exchange with its sender.
C10_Witness ==
  /\ out.at \in Nodes
  /\ Handled(out.at, "key_exchange")
  /\ ValidCodename(out.ev.data.codename)
  /\ ValidKeyBlock(out.ev.data.publicKey)
  /\ out.ev.from \in DOMAIN peers[out.at]
  /\ peers[out.at][out.ev.from].connected
  /\ out.ev.from \in DOMAIN peerKeys[out.at]
  /\ \A k \in tasks[out.at] : k.h # "key_exchange"

\* The creator and everyone recorded in some tab's membership.
Participants ==
  {n \in Nodes : isCreator[n]} \cup UNION {DOMAIN peers[n] : n \in Nodes}

\* C11 as stated: while the creator's entry is closed nobody who is not
\* a participant yet is added to any tab's membership, and no channel is
\* dropped.
C11_NoNewMemberWhileClosed ==
  [][(isCreator[A] /\ ~entryOpen[A]) =>
       /\ Participants' \subseteq Participants
       /\ \A n \in Nodes : connections[n] \subseteq connections'[n]]_vars

\* C12: once a peer has closed its tab and nothing is left in flight,
\* no tab that is still in chat records it as a member or holds its key.
C12_DepartedIsForgotten ==
  (Quiet /\ screen[C] = "closed") =>
    \A n \in {A, B} :
      state[n] = "chat" => (C \notin DOMAIN peers[n] /\ C \notin DOMAIN peerKeys[n])

C14_CreatorAloneNeedsOpenEntry ==
  [][(isCreator[A] /\ state[A] = "chat" /\ screen'[A] # "closed"
       /\ peers[A] # EmptyMap /\ peers'[A] = EmptyMap) =>
      IF entryOpen[A]
      THEN state'[A] = "chat" /\ timers'[A] = timers[A] /\ peer'[A] = "open"
      ELSE timers'[A] = timers[A] + 1 \/ state'[A] = "destroyed"]_vars

\* A session is running on tab n: its channel id is set by createChannel
\* and joinChannel and dropped by destroySession and cancelWaiting.
InSession(n) == channelId[n] # Null

\* joinChannel has run on tab n.
JoinBegun(n) ==
  join[n].outcome # "none" \/ \E k \in tasks[n] : k.h = "joinChannel"

\* C15: while a session runs, isCreator keeps its value from the moment
\* the tab is the creator or a join has begun on it, whatever events
\* interleave.
C15_RoleIsFixed ==
  [][\A n \in Nodes :
       (InSession(n) /\ InSession(n)' /\ (isCreator[n] \/ JoinBegun(n))) =>
         isCreator'[n] = isCreator[n]]_vars

\* The key_exchange fails validation or its key cannot be read.
Malformed(m) ==
  ~ValidCodename(m.codename) \/ ~ValidKeyBlock(m.publicKey) \/ ~ReadKeyOk(m.publicKey)

\* C16: taking a malformed key_exchange off a channel, and the
\* continuation of its handler if there is one, leave the membership,
\* the key store, the state and the connections as they were and send
\* nothing; the step that ends the attempt shows one error line (unless
\* the message passed validation and was dropped because its sender is
\* already recorded as connected).
C16_MalformedKeyExchangeAborted ==
  [][\A q \in Nodes :
       ((Handled(q, "key_exchange")' \/ Resumed(q, "key_exchange")')
          /\ Malformed(out'.ev.data)) =>
         /\ peers'[q] = peers[q]
         /\ peerKeys'[q] = peerKeys[q]
         /\ state'[q] = state[q]
         /\ connections'[q] = connections[q]
         /\ Outbound(q)' = Outbound(q)
         /\ (/\ tasks'[q] \subseteq tasks[q]
             /\ ~(/\ Handled(q, "key_exchange")'
                  /\ ValidCodename(out'.ev.data.codename)
                  /\ ValidKeyBlock(out'.ev.data.publicKey)
                  /\ out'.ev.from \in DOMAIN peers[q]
                  /\ peers[q][out'.ev.from].connected)) =>
              (Len(out'.lines) = 1 /\ out'.lines[1].kind = "error")]_vars

\* Message x announces or introduces peer m: the creator's peer_joined or
\* peer_list naming m, or m's own key_exchange.
Names(x, from, m) ==
  \/ x.type = "key_exchange" /\ from = m
  \/ x.type = "peer_joined" /\ x.peerId = m
  \/ x.type = "peer_list" /\ \E i \in 1..Len(x.peers) : x.peers[i].peerId = m

\* At tab n nothing about peer m is queued or suspended any more.
Settled(n, m) ==
  /\ \A p \in Nodes \ {n} : \A i \in 1..Len(chan[<<p, n>>]) :
        ~Names(chan[<<p, n>>][i], p, m)
  /\ \A k \in tasks[n] :
        ~Names([k.data EXCEPT !.type = k.h], k.from, m)

\* C17: once a joiner holds a direct channel to another joiner and has
\* handled, to the end of every continuation, all that announced or
\* introduced it (the creator's peer_joined or peer_list and the direct
\* key_exchange, in whatever order they interleaved), it has that peer's
\* record, marked connected, and holds that peer's key.
C17_AnnouncedAndDirectAgree ==
  \A n \in Joiners : \A m \in Joiners \ {n} :
    (m \in connections[n] /\ Settled(n, m)) =>
      /\ m \in DOMAIN peers[n]
      /\ peers[n][m].connected
      /\ m \in DOMAIN peerKeys[n]
      /\ peerKeys[n][m] = ArmoredKey(m)

\* The continuation of B's peer_joined handler for C has just run after
\* C's direct key_exchange was handled to the end in between.
C17_Witness ==
  /\ Resumed(B, "peer_joined")
  /\ out.ev.data.peerId = C
  /\ C \in connections[B]
  /\ Settled(B, C)
  /\ peers[B][C].connected
  /\ peerKeys[B][C] = ArmoredKey(C)

\* The edges the state machine is said to have.
Edges ==
  {<<"landing", "waiting">>, <<"waiting", "chat">>, <<"landing", "chat">>,
   <<"chat", "destroyed">>, <<"landing", "error">>, <<"waiting", "error">>,
   <<"error", "landing">>, <<"destroyed", "landing">>}

\* Two more that the code takes by design: cancelling the waiting
\* screen, and the creator's close reaching a joiner before its first
\* key exchange has completed.
GrantedEdges == {<<"waiting", "landing">>, <<"landing", "destroyed">>}

\* C18: the state of a tab changes only along the listed edges (the two
\* granted ones included), and createChannel or joinChannel starts only
\* in state landing.
C18_StateEdges ==
  [][\A n \in Nodes :
       /\ state'[n] # state[n] =>
            <<state[n], state'[n]>> \in Edges \cup GrantedEdges
       /\ (\E k \in tasks'[n] \ tasks[n] :
              k.h \in {"createChannel", "joinChannel"} /\ k.idx = 1) =>
            state[n] = "landing"]_vars

JoinErrors == {"peer-unavailable", "request-timeout", "network"}

\* The join of tab n is rejected in this step.
JoinFails(n) == ~join[n].settled /\ join'[n].outcome \in JoinErrors

Ran(n, cmd) == out.at = n /\ out.ev.op = "command" /\ out.ev.type = cmd

\* C20: /close_entry or /open_entry run by a tab that is not the
\* creator, or by the creator with entry already in the requested
\* position, shows one system line and changes nothing: not the entry
\* flag, not the registration, not anything else the tab holds, and no
\* message is handed to any channel.
C20_EntryCommandRefused ==
  [][\A n \in Nodes :
       (Ran(n, "/close_entry")' \/ Ran(n, "/open_entry")') =>
         LET wanted == (out'.ev.type = "/open_entry")
         IN (~isCreator[n] \/ entryOpen[n] = wanted) =>
              /\ Session(n)' = Session(n)
              /\ chan' = chan
              /\ Len(out'.lines) = 1
              /\ out'.lines[1].kind = "system"
              /\ ~isCreator[n] =>
                   out'.lines[1].what \in
                     {"Only the channel creator can close entry.",
                      "Only the channel creator can open entry."}]_vars

\* A joiner in chat has just been refused /close_entry.
C20_Witness ==
  /\ Ran(B, "/close_entry")
  /\ ~isCreator[B]
  /\ state[B] = "chat"
  /\ entryOpen[B]
  /\ peer[B] = "open"
  /\ out.lines[1].what = "Only the channel creator can close entry."

\* The last step was tab n entering this line in the chat input.
EnteredLine(n, text) == out.at = n /\ out.ev.op = "input" /\ out.ev.type = text

\* What tab n handed to its channel to x in the step.
HandedTo(n, x) ==
  SubSeq(chan'[<<n, x>>], Len(chan[<<n, x>>]) + 1, Len(chan'[<<n, x>>]))

\* C21: a line whose trimmed text starts with a slash never becomes a
\* chat message (no encryption is started, no chat is handed to a
\* channel); it is looked up by its lower-cased first word, so a word
\* of the table runs its command whatever its case, and any other word
\* shows exactly the unknown-command notice, hands nothing to any
\* channel and changes nothing the tab holds.
C21_SlashIsNeverChat ==
  [][\A n \in Nodes : \A text \in Inputs :
       (EnteredLine(n, text)' /\ StartsWith(trim(text), "/")) =>
         LET cmd == firstWord(toLowerCase(trim(text)))
         IN /\ tasks'[n] = tasks[n]
            /\ \A x \in Nodes \ {n} :
                 \A i \in 1..Len(HandedTo(n, x)) : HandedTo(n, x)[i].type # "chat"
            /\ cmd \notin commands =>
                 /\ out'.lines = <<Line("system", "Unknown command", cmd)>>
                 /\ chan' = chan
                 /\ Session(n)' = Session(n)
            /\ cmd \in commands =>
                 \A i \in 1..Len(out'.lines) : out'.lines[i].what # "Unknown command"
            /\ cmd = "/whoami" =>
                 out'.lines = <<Line("system", "Codename, role, key fingerprint",
                                     IF isCreator[n] THEN "creator" ELSE "joiner")>>
            /\ (cmd = "/close_entry" /\ isCreator[n] /\ entryOpen[n]) =>
                 ~entryOpen'[n]
            /\ cmd = "/clear" =>
                 \A x \in connections[n] : HandedTo(n, x) = <<Msg("clear")>>]_vars

\* A chatting joiner has just typed a word that is no command, with
\* white space before it, and was told so.
C21_Witness ==
  /\ EnteredLine(B, "  /closeentry")
  /\ state[B] = "chat"
  /\ A \in connections[B]
  /\ out.lines = <<Line("system", "Unknown command", "/closeentry")>>

\* C22: a ping is answered by exactly one pong with the ping's
\* timestamp, handed to the ping's sender and to nobody else, and
\* changes nothing at the receiver.  A pong from P is reported (one
\* system line) exactly when the pending-ping map holds P with that
\* timestamp, and the report removes P's entry and nothing else; any
\* other pong shows nothing, sends nothing and changes nothing.
C22_PingPong ==
  [][\A q \in Nodes :
       /\ Handled(q, "ping")' =>
            LET P == out'.ev.from
            IN /\ HandedTo(q, P) = <<PongMsg(out'.ev.data.timestamp)>>
               /\ \A x \in Nodes \ {q, P} : chan'[<<q, x>>] = chan[<<q, x>>]
               /\ Session(q)' = Session(q)
               /\ out'.lines = <<>>
       /\ Handled(q, "pong")' =>
            LET P == out'.ev.from
                pending == P \in DOMAIN pendingPings[q]
            IN /\ Outbound(q)' = Outbound(q)
               /\ IF pending /\ pendingPings[q][P] = out'.ev.data.timestamp
                  THEN /\ Len(out'.lines) = 1
                       /\ out'.lines[1].what = "Pong from"
                       /\ pendingPings'[q] = Del(pendingPings[q], P)
                       /\ peers'[q] = peers[q] /\ peerKeys'[q] = peerKeys[q]
                       /\ state'[q] = state[q]
                  ELSE /\ Session(q)' = Session(q)
                       /\ out'.lines = <<>>]_vars

\* The creator pinged twice; the answer to its first ping has just
\* arrived while the map holds the second timestamp, and was dropped.
C22_Witness ==
  /\ Handled(A, "pong")
  /\ out.ev.from = B
  /\ forged = 0
  /\ out.ev.data.timestamp = 1
  /\ B \in DOMAIN pendingPings[A]
  /\ pendingPings[A][B] = 2
  /\ out.lines = <<>>

\* The last step showed a received file.
FileShown == \E i \in 1..Len(out.lines) : out.lines[i].kind = "peer" /\ out.lines[i].what = "file"

\* The last step showed exactly one line, an error.
OneError == Len(out.lines) = 1 /\ out.lines[1].kind = "error"

MessageFailed(q) ==
  LET pl == out.ev.data.payload
      f == pl.file
  IN /\ Resumed(q, "chat") \/ Resumed(q, "file")
     /\ \/ ~(pl.armored /\ privateKey[q] # Null /\ privateKey[q] \in pl.to)
        \/ /\ Resumed(q, "file")
           /\ \/ ~f.json
              \/ f.data = 0 \/ f.data * 100 > MAX_FILE_SIZE * 137
              \/ f.fileName = 0 \/ f.fileName > 255

\* C24: a chat or file message that fails to decrypt, and a file that
\* fails validation, produce one error line and nothing else: state,
\* membership, key store, entry flag, registration, open channels and
\* everything queued on them stay as they were, no teardown is
\* scheduled and the input stays enabled, so whatever the sender sent
\* next is still delivered.
C24_MessageFailureIsLocal ==
  [][\A q \in Nodes :
       MessageFailed(q)' =>
         /\ OneError'
         /\ <<state[q], selfCodename[q], peers[q], channelId[q], isCreator[q],
              entryOpen[q], sessionStartTime[q], pendingPings[q], screen[q],
              inputEnabled[q], privateKey[q], publicKeyArmored[q], peerKeys[q],
              peer[q], connections[q], join[q], timers[q]>>'
            = <<state[q], selfCodename[q], peers[q], channelId[q], isCreator[q],
                entryOpen[q], sessionStartTime[q], pendingPings[q], screen[q],
                inputEnabled[q], privateKey[q], publicKeyArmored[q], peerKeys[q],
                peer[q], connections[q], join[q], timers[q]>>
         /\ tasks'[q] \subseteq tasks[q]
         /\ chan' = chan
         /\ dialing' = dialing]_vars

\* The creator, in chat, has just reported a message from the joiner
\* that it could not decrypt; the joiner's next chat message is queued
\* behind it on the channel, which is still open.
C24_Witness ==
  /\ MessageFailed(A)
  /\ out.ev.from = B
  /\ ~out.ev.data.payload.armored
  /\ OneError
  /\ state[A] = "chat"
  /\ B \in connections[A]
  /\ B \in DOMAIN peerKeys[A]
  /\ chan[<<B, A>>] # <<>>
  /\ Head(chan[<<B, A>>]).type = "chat"
  /\ Head(chan[<<B, A>>]).payload.text = "hello"

\* The peer whose departure tab q has just handled: the one named by
\* peer_left, the sender of leave, the far end of a closed channel.
Departed(q) ==
  IF Handled(q, "peer_left") THEN out.ev.data.peerId ELSE out.ev.from

\* C25: handling a departure (peer_left, leave or the channel closing,
\* the last two while in chat) removes the departed peer's record and
\* key and no other; when the peer was already removed by an earlier
\* notice, the membership map and the key store stay exactly as the
\* first removal left them.
C25_RemovalIsIdempotent ==
  [][\A q \in Nodes :
       (\/ Handled(q, "peer_left")' /\ out'.ev.from = DerivedCreatorId(q)
        \/ (Handled(q, "leave")' \/ Handled(q, "#closed")') /\ state[q] = "chat") =>
         LET P == Departed(q)'
         IN /\ peers'[q] = Del(peers[q], P)
            /\ peerKeys'[q] = Del(peerKeys[q], P)
            /\ (P \notin DOMAIN peers[q] /\ P \notin DOMAIN peerKeys[q]) =>
                 peers'[q] = peers[q] /\ peerKeys'[q] = peerKeys[q]
            /\ \A i \in 1..Len(out'.lines) : out'.lines[i].kind = "system"]_vars

\* The remaining joiner has just handled a peer_left for the third tab
\* that the creator sent under its fall-back name, the one it uses when
\* it had already removed the record (the channel closing after a
\* leave) or never had one: the joiner holds no record or key of the
\* third tab and still holds those of the creator.
C25_Witness ==
  /\ Handled(B, "peer_left")
  /\ out.ev.data.peerId = C
  /\ out.ev.data.codename = "Peer"
  /\ state[B] = "chat"
  /\ DOMAIN peers[B] = {A}
  /\ DOMAIN peerKeys[B] = {A}

\* The last step of the single-peer build was this event.
Legacy(op) == out.at = "legacy" /\ out.ev.op = op

\* C26: send with no connection handle, or with a handle that is not
\* open (not yet, or no longer), changes nothing in network.js and
\* hands nothing to the connection; nothing sent that way is handed
\* over when a connection opens afterwards.  With an open handle the
\* message is handed over once.
C26_SendWithoutChannelIsNoOp ==
  [][/\ Legacy("send")' =>
          IF connIsOpen(legacy)
          THEN legacy' = [legacy EXCEPT !.sent = Append(@, "data")]
          ELSE legacy' = legacy
     /\ Legacy("conn-open")' => legacy'.sent = <<>>]_vars

\* main.js has just sent while network.js holds the handle of an
\* accepted connection that has not opened yet: nothing was handed over.
C26_Witness ==
  /\ Legacy("send")
  /\ legacy.conn # Null
  /\ legacy.dials[legacy.conn] = "accepted"
  /\ legacy.sent = <<>>

\* C27: in the single-peer build an inbound connection is taken only
\* while the link is not burned, which burns it; every connection event
\* after that, until destroy, closes the new attempt and leaves the
\* handle, the wired handlers and the announced connections as they
\* were.  The handle changes only from none to the accepted attempt and
\* back to none by destroy, and handlers are wired and connectionReady
\* is called for the accepted handle only.
C27_LinkBurning ==
  [][/\ Legacy("connection")' =>
          LET k == out'.ev.from
          IN IF legacy.linkBurned
             THEN legacy' = [legacy EXCEPT !.dials[k] = "closed"]
             ELSE /\ legacy.conn = Null
                  /\ legacy'.conn = k
                  /\ legacy'.linkBurned
                  /\ legacy'.wired = {} /\ legacy'.ready = {}
     /\ legacy.conn # Null =>
          \/ legacy'.conn = legacy.conn
          \/ Legacy("destroy")' /\ legacy'.conn = Null
     /\ legacy'.wired \subseteq {legacy'.conn} \ {Null}
     /\ legacy'.ready \subseteq {legacy'.conn} \ {Null}
     /\ \A k \in Dialers :
          legacy'.dials[k] \in {"accepted", "open"} => legacy'.conn = k]_vars

\* A second party has just opened the link while the first accepted
\* connection had not opened yet and the creator was still registered:
\* its attempt was closed and the first handle kept.
C27_Witness ==
  /\ Legacy("connection")
  /\ out.ev.from = "j2"
  /\ legacy.dials["j2"] = "closed"
  /\ legacy.conn = "j1"
  /\ legacy.dials["j1"] = "accepted"
  /\ legacy.peer = "open"
  /\ legacy.wired = {}

C29_EntryNoticeOnlyMirrors ==
  [][\A q \in Nodes :
       (/\ Handled(q, "entry_closed")' \/ Handled(q, "entry_opened")'
        /\ out'.ev.from = DerivedCreatorId(q)
        /\ ~isCreator[q]) =>
         /\ entryOpen'[q] = Handled(q, "entry_opened")'
         /\ peers'[q] = peers[q]
         /\ peerKeys'[q] = peerKeys[q]
         /\ connections'[q] = connections[q]
         /\ Outbound(q)' = Outbound(q)
         /\ dialing' = dialing
         /\ state'[q] = state[q]
         /\ peer'[q] = peer[q]]_vars

\* The messages of this type among those tab n handed to x in the step.
HandedOfType(n, x, type) ==
  SelectSeq(HandedTo(n, x), LAMBDA m : m.type = type)

\* C30: when the creator's key exchange with a new peer N completes,
\* N is handed one peer_list naming exactly the other peers the creator
\* records as connected, each under its recorded codename and with the
\* key the creator's store holds for it, or no peer_list when there is
\* no such peer; every other open channel is handed one peer_joined
\* for N with N's codename and key, and N none (channels whose far end
\* is gone take nothing).  A tab that is not the creator hands no
\* peer_list and no peer_joined to anyone.
C30_PeerListAndPeerJoined ==
  [][\A q \in Nodes :
       /\ (Resumed(q, "key_exchange")' /\ isCreator[q]
           /\ ReadKeyOk(out'.ev.data.publicKey)
           /\ \E k \in tasks[q] \ tasks'[q] : k.isNewPeer) =>
            LET N == out'.ev.from
                data == out'.ev.data
                others == {p \in DOMAIN peers[q] \ {N} : peers[q][p].connected}
                lists == HandedOfType(q, N, "peer_list")
            IN /\ others = {} => lists = <<>>
               /\ (others # {} /\ N \in connections[q] /\ q \in connections[N]) =>
                    /\ Len(lists) = 1
                    /\ Len(lists[1].peers) = Cardinality(others)
                    /\ {lists[1].peers[i].peerId : i \in 1..Len(lists[1].peers)} = others
                    /\ \A i \in 1..Len(lists[1].peers) :
                         LET e == lists[1].peers[i]
                         IN /\ e.codename = peers[q][e.peerId].codename
                            /\ e.peerId \in DOMAIN peerKeys[q]
                            /\ e.publicKey = peerKeys[q][e.peerId]
               /\ HandedOfType(q, N, "peer_joined") = <<>>
               /\ \A x \in {y \in connections[q] \ {N} : q \in connections[y]} :
                    /\ HandedOfType(q, x, "peer_joined")
                         = <<PeerJoinedMsg(N, data.codename, data.publicKey)>>
                    /\ HandedOfType(q, x, "peer_list") = <<>>
       /\ (out'.at = q /\ ~isCreator[q]) =>
            \A x \in Nodes \ {q} :
              /\ HandedOfType(q, x, "peer_list") = <<>>
              /\ HandedOfType(q, x, "peer_joined") = <<>>]_vars
\* Handler k of a tab is suspended inside the import of a key for peer m.
ImportsKeyFor(k, m) ==
  \/ k.h = "key_exchange" /\ k.from = m
  \/ k.h = "peer_joined" /\ k.data.peerId = m
  \/ k.h = "peer_list" /\ k.data.peers[k.idx].peerId = m

\* C31: when a tab takes off a channel a key_exchange from a peer, or a
\* peer_list or peer_joined naming a peer, that it has recorded as
\* connected and whose key it holds, the peer's record (codename and
\* connected flag) and its key stay as they were and the handler starts
\* no import of a key for that peer.  In the single-peer build a
\* key_exchange that arrives once the state is chat changes nothing:
\* not the peer's codename, not its key, and no import is started.
C31_ConnectedPeerIsNotRekeyed ==
  [][/\ \A q \in Nodes : \A m \in Nodes \ {q} :
          (/\ out'.at = q /\ out'.ev.op = "data"
           /\ Names(out'.ev.data, out'.ev.from, m)
           /\ m \in DOMAIN peers[q] /\ peers[q][m].connected
           /\ m \in DOMAIN peerKeys[q]) =>
            /\ m \in DOMAIN peers'[q] /\ peers'[q][m] = peers[q][m]
            /\ m \in DOMAIN peerKeys'[q] /\ peerKeys'[q][m] = peerKeys[q][m]
            /\ \A k \in tasks'[q] \ tasks[q] : ~ImportsKeyFor(k, m)
     /\ (Legacy("key_exchange")' /\ legacy.state = "chat") => legacy' = legacy]_vars

\* The creator has just taken a key_exchange under another name and with
\* another key from the joiner it had completed the exchange with, and
\* still holds the joiner's first name and key.
C31_Witness ==
  /\ Handled(A, "key_exchange")
  /\ out.ev.from = B
  /\ out.ev.data.publicKey = ArmoredKey(C)
  /\ B \in DOMAIN peers[A] /\ peers[A][B].connected
  /\ peers[A][B].codename = generateCodename(B)
  /\ B \in DOMAIN peerKeys[A] /\ peerKeys[A][B] = ArmoredKey(B)
  /\ \A k \in tasks[A] : k.h # "key_exchange"
  /\ legacy.state = "chat"
\* What tab n holds besides the bookkeeping of its join attempt and its
\* registration, and what it has handed to its channels.
Held(n) ==
  <<state[n], selfCodename[n], peers[n], channelId[n], isCreator[n],
    entryOpen[n], sessionStartTime[n], pendingPings[n], screen[n],
    inputEnabled[n], privateKey[n], publicKeyArmored[n], peerKeys[n],
    connections[n], timers[n], tasks[n], Outbound(n)>>

\* One of the events that can settle n's join attempt occurs: the
\* timeout fires, the registration fails, or the attempt to reach the
\* creator ends (the channel opens, or nobody is registered there).
JoinEvent(n) ==
  \/ join[n].timeout /\ ~join'[n].timeout /\ screen'[n] # "closed"
  \/ peer[n] = "opening" /\ peer'[n] = "disconnected"
  \/ \E d \in dialing \ dialing' : d[1] = n /\ d[3] = "join" /\ peer'[n] # "none"

\* C32: a join attempt settles once.  The event that settles it is
\* one of the four, and it either resolves the attempt, showing
\* nothing, or rejects it, showing the error screen with one message.
\* Once the attempt is settled its outcome stays, and a later timeout,
\* registration error, unavailable target or opening channel changes
\* nothing the tab holds and shows nothing: in particular a channel
\* that opens after the rejection is not entered in the registry, no
\* key_exchange is handed to it and the state stays as it was.
C32_JoinSettlesFirstOnly ==
  [][\A n \in Joiners :
       /\ (~join[n].settled /\ join'[n].settled) =>
            /\ JoinEvent(n)
            /\ IF join'[n].outcome = "resolved"
               THEN out' = NoOut /\ screen'[n] = screen[n]
               ELSE /\ out'.at = n /\ Len(out'.lines) = 1
                    /\ out'.lines[1].kind = "screen"
                    /\ out'.lines[1].what = join'[n].outcome
                    /\ screen'[n] = "error"
       /\ (join[n].settled /\ JoinEvent(n)) =>
            /\ join'[n].settled /\ join'[n].outcome = join[n].outcome
            /\ Held(n)' = Held(n)
            /\ out'.at = n => out'.lines = <<>>]_vars

\* The channel to the creator has opened after the joiner's attempt
\* was rejected by the timeout: the creator holds the channel, the
\* joiner has not entered it, has handed nothing to it and still
\* shows the error screen.
C32_Witness ==
  /\ join[B].outcome = "request-timeout"
  /\ B \in connections[A]
  /\ A \notin connections[B]
  /\ chan[<<B, A>>] = <<>>
  /\ peer[B] = "open"
  /\ screen[B] = "error"
  /\ state[B] = "landing"
\* C33: a teardown timer left over from an earlier session of a tab,
\* firing after the tab has begun a new create or join, leaves the new
\* session's state, screen, keys, membership, registration and
\* channels as they are.
C33_StaleTimerSparesNewSession ==
  [][\A n \in Nodes :
       (stale'[n] < stale[n] /\ screen'[n] # "closed") =>
         /\ state'[n] = state[n] /\ screen'[n] = screen[n]
         /\ privateKey'[n] = privateKey[n]
         /\ publicKeyArmored'[n] = publicKeyArmored[n]
         /\ peerKeys'[n] = peerKeys[n]
         /\ peers'[n] = peers[n]
         /\ peer'[n] = peer[n]
         /\ connections'[n] = connections[n]]_vars
\* No handler of tab n is suspended inside a key import.
NoImportInFlight(n) ==
  \A k \in tasks[n] : k.h \notin {"key_exchange", "peer_list", "peer_joined"}

\* C34: whenever no handler of an open tab is suspended inside a key
\* import, the peers it holds a key for are the peers of its membership
\* map.
C34_KeysMatchMembers ==
  \A n \in Nodes :
    (screen[n] # "closed" /\ NoImportInFlight(n)) =>
      DOMAIN peerKeys[n] = DOMAIN peers[n]
\* C35: a tab in chat that takes a leave from sender S removes S's
\* record and S's key and nothing else from its membership map and
\* its key store, whatever id and codename the message carries; it
\* keeps its channels, and what it hands on is at most the creator's
\* peer_left naming S.  A tab that is not in chat changes nothing and
\* shows nothing.
C35_LeaveRemovesOnlyItsSender ==
  [][\A q \in Nodes :
       Handled(q, "leave")' =>
         LET S == out'.ev.from
         IN IF state[q] = "chat"
            THEN /\ peers'[q] = Del(peers[q], S)
                 /\ peerKeys'[q] = Del(peerKeys[q], S)
                 /\ connections'[q] = connections[q]
                 /\ \A x \in Nodes \ {q} :
                      \A i \in 1..Len(HandedTo(q, x)) :
                        /\ isCreator[q]
                        /\ HandedTo(q, x)[i].type = "peer_left"
                        /\ HandedTo(q, x)[i].peerId = S
            ELSE /\ Held(q)' = Held(q)
                 /\ out'.lines = <<>>]_vars

\* Joiner B, in chat with the creator and with C, has just taken a
\* leave from C that names the creator: it dropped C's record and key
\* and kept the creator's.
C35_Witness ==
  /\ Handled(B, "leave")
  /\ out.ev.from = C
  /\ out.ev.data.peerId = A
  /\ state[B] = "chat"
  /\ DOMAIN peers[B] = {A}
  /\ DOMAIN peerKeys[B] = {A}
  /\ Len(out.lines) = 1
\* An entry_closed or entry_opened from the creator is on its way to n.
EntryNoticeInFlight(n) ==
  \E i \in 1..Len(chan[<<A, n>>]) :
    chan[<<A, n>>][i].type \in {"entry_closed", "entry_opened"}

\* Tab n has completed its key exchange with the creator: each holds
\* the other's key and both are in chat.
KeyedWithCreator(n) ==
  /\ isCreator[A] /\ ~isCreator[n]
  /\ state[A] = "chat" /\ state[n] = "chat"
  /\ A \in DOMAIN peerKeys[n]
  /\ n \in DOMAIN peerKeys[A]

\* C36: whenever no entry_closed or entry_opened is on its way to a
\* participant that has completed its key exchange with the creator,
\* that participant holds the creator's entryOpen value.
C36_EntryFlagMirrored ==
  \A n \in Joiners :
    (KeyedWithCreator(n) /\ ~EntryNoticeInFlight(n)) =>
      entryOpen[n] = entryOpen[A]
\* Tab n is in chat as a non-creator and holds no channel.
Stranded(n) ==
  /\ ~isCreator[n]
  /\ state[n] = "chat"
  /\ screen[n] # "closed"
  /\ connections[n] = {}

\* C37: a non-creator in chat that holds no channel any more is
\* eventually destroyed (unless its tab is closed first), also when its
\* membership map still holds peers that were announced to it and never
\* connected.
C37_StrandedJoinerIsDestroyed ==
  \A n \in Joiners :
    Stranded(n) ~> (state[n] = "destroyed" \/ screen[n] = "closed")
\* Sizes around both ends of what sendFile lets through.
Margin == 8

PrecheckedSizes ==
  (0..Margin) \cup ((MAX_FILE_SIZE - Margin)..MAX_FILE_SIZE)

\* C38: the encoded length of a file sendFile lets through (at most
\* MAX_FILE_SIZE bytes) is at most 1.37 times MAX_FILE_SIZE, and the
\* receiver that takes such a file never rejects it as exceeding the
\* maximum size.
C38_PrecheckedFilePassesSizeCheck ==
  [][/\ \A n \in PrecheckedSizes :
          Base64Length(n) * 100 <= MAX_FILE_SIZE * 137
     /\ \A q \in Nodes :
          LET f == out'.ev.data.payload.file
          IN (/\ Resumed(q, "file")'
              /\ f.json
              /\ f.fileSize <= MAX_FILE_SIZE
              /\ f.data = Base64Length(f.fileSize)) =>
               \A i \in 1..Len(out'.lines) :
                 out'.lines[i].what #
                   "Rejected file: exceeds maximum allowed size (2 MB)."]_vars

\* The creator has just shown a file of exactly MAX_FILE_SIZE bytes
\* that the joiner attached.
C38_Witness ==
  /\ Resumed(A, "file")
  /\ out.ev.from = B
  /\ out.ev.data.payload.file.fileSize = MAX_FILE_SIZE
  /\ out.ev.data.payload.file.data = Base64Length(MAX_FILE_SIZE)
  /\ out.ev.data.payload.file.data = 2796204
  /\ FileShown
\* Tab n is idle: on the landing or the error screen in state landing,
\* with no createChannel or joinChannel under way.
Idle(n) ==
  /\ state[n] = "landing"
  /\ screen[n] \in {"landing", "error"}
  /\ \A k \in tasks[n] : k.h \notin {"createChannel", "joinChannel"}
  /\ join[n].outcome # "pending"

\* C39: an idle tab holds no keypair, no registration and no channel,
\* whether it has not started yet or got there by a cancelled wait, a
\* failed creation, a failed join or a destroyed session.
C39_IdleHoldsNothing ==
  \A n \in Nodes :
    Idle(n) =>
      /\ privateKey[n] = Null
      /\ publicKeyArmored[n] = Null
      /\ peer[n] = "none"
      /\ connections[n] = {}
\* The creator of the single-peer build waits with its link burned by
\* an attempt whose data channel will never open.
Jammed ==
  /\ legacy.state = "waiting"
  /\ legacy.linkBurned
  /\ legacy.conn # Null
  /\ legacy.dials[legacy.conn] = "failed"

\* C40: in the single-peer build an accepted attempt whose data channel
\* never opens does not block the channel for good: the creator does
\* not stay in waiting with the link burned, closing every later
\* attempt.
C40_DeadAttemptDoesNotBlock ==
  /\ Jammed ~> ~Jammed
  /\ [][\A k \in Dialers :
          (Jammed /\ Legacy("connection")' /\ out'.ev.from = k) =>
            legacy'.dials[k] # "closed"]_vars
====
